---- MODULE Spec2Model ----
(***************************************************************************)
(* A model of the structural command engine of vis (sam.c): the lexer, the *)
(* token stream executor, the per-file transcript of deferred changes and  *)
(* the apply phase of sam_cmd.                                             *)
(*                                                                         *)
(* Bytes are one-character strings, a byte slice (s8) is a sequence of     *)
(* bytes, and a pointer into the command line is a 0-based offset.         *)
(***************************************************************************)
EXTENDS Integers, Sequences, FiniteSets, TLC

VARIABLES
    pc,            \* position of the running sam_cmd call
    command_line,  \* sam_cmd's argument: the raw line
    tokens,        \* SamTokenStream.tokens (count is Len(tokens))
    read_index,    \* SamTokenStream.read_index
    text,          \* file -> the bytes of file->text
    transcript,    \* file -> file->transcript
    sels,          \* window -> the selections of win->view, in traversal order
    visual,        \* vis->mode->visual
    win,           \* vis->win: the focused window, or NoWin
    windows,       \* window -> "unused", "open" or "closed"
    sam,           \* vis->sam and the locals of execute_token_stream
    shell_register,\* vis->registers[VIS_REG_SHELL]
    err,           \* the value sam_cmd returns
    editor,        \* vis->cmds, vis->usercmds and the values of the options
    hist           \* history: what the invocation started from and has done

lexVars == <<command_line, tokens, read_index>>
fileVars == <<text, transcript>>
viewVars == <<sels, visual, win, windows>>
engineVars == <<sam, shell_register, err, editor>>
vars == <<pc, command_line, tokens, read_index, text, transcript, sels, visual, win, windows,
          sam, shell_register, err, editor, hist>>

(***************************************************************************)
(* Bounds                                                                  *)
(***************************************************************************)
MaxLineLen == 3
MaxChanges == 3

(***************************************************************************)
(* Character classes (util.h, sam.c)                                       *)
(***************************************************************************)
ISSPACE(c) == c \in {" ", "\n", "\t", "\r"}

ISDIGIT(c) == c \in {"0", "1", "2", "3", "4", "5", "6", "7", "8", "9"}

IS_SAM_DELIMITER(c) ==
    c \in {"/", "!", ";", ":", "%", "#", "?", ",", ".", "+", "-", "=", "'"}

(***************************************************************************)
(* Tokens                                                                  *)
(***************************************************************************)
SamToken(type, start, length) == [type |-> type, start |-> start, length |-> length]

\* sam_token_push: zero-length tokens are not emitted
sam_token_push(toks, tok) == IF tok.length > 0 THEN Append(toks, tok) ELSE toks

\* the bytes of a token
sam_token_to_s8(raw, tok) == SubSeq(raw, tok.start + 1, tok.start + tok.length)

\* A lexer state: the offset reached in raw, the string accumulator, the
\* tokens pushed so far and whether an ASSERT of consume() trapped.
LexState(pos, toks, trap) ==
    [pos |-> pos, accum |-> SamToken("ST_STRING", pos, 0), toks |-> toks, trap |-> trap]

\* consume(raw, count) seen from the offset: ASSERT(raw.len >= count)
consume_ok(raw, pos, count) == Len(raw) - pos >= count

\* consume_digits: the offset after the run of digits starting at pos
RECURSIVE consume_digits(_, _)
consume_digits(raw, pos) ==
    IF pos < Len(raw) /\ ISDIGIT(raw[pos + 1]) THEN consume_digits(raw, pos + 1) ELSE pos

\* One iteration of the while loop of sam_lex.
lex_step(raw, st) ==
    LET cp      == raw[st.pos + 1]
        flushed == sam_token_push(st.toks, st.accum)
    IN  IF ISSPACE(cp) THEN
            LexState(st.pos + 1, flushed, FALSE)
        ELSE IF ISDIGIT(cp) THEN
            LET e == consume_digits(raw, st.pos)
            IN  LexState(e, Append(flushed, SamToken("ST_NUMBER", st.pos, e - st.pos)), FALSE)
        ELSE IF cp \in {"{", "}"} THEN
            LET type == IF cp = "{" THEN "ST_GROUP_START" ELSE "ST_GROUP_END"
                toks == Append(flushed, SamToken(type, st.pos, 1))
            \* raw = consume(raw, 1); raw = consume(raw, 1);
            IN  IF consume_ok(raw, st.pos + 1, 1)
                THEN LexState(st.pos + 1 + 1, toks, FALSE)
                ELSE LexState(st.pos + 1, toks, TRUE)
        ELSE IF cp \in {">", "<", "|"} /\ st.accum.length = 0 THEN
            LexState(st.pos + 1,
                     sam_token_push(st.toks, SamToken("ST_STRING", st.accum.start, 1)),
                     FALSE)
        ELSE IF IS_SAM_DELIMITER(cp) THEN
            LexState(st.pos + 1, Append(flushed, SamToken("ST_DELIMITER", st.pos, 1)), FALSE)
        ELSE
            [st EXCEPT !.pos = st.pos + 1, !.accum.length = st.accum.length + 1]

RECURSIVE lex_loop(_, _)
lex_loop(raw, st) ==
    IF st.trap THEN st
    ELSE IF st.pos < Len(raw) THEN lex_loop(raw, lex_step(raw, st))
    ELSE [st EXCEPT !.toks = sam_token_push(st.toks, st.accum)]

\* sam_lex(s, raw): the tokens pushed and whether the lexer trapped
sam_lex(raw) == lex_loop(raw, LexState(0, <<>>, FALSE))

(***************************************************************************)
(* Text (text.h).  A text is the sequence of its bytes; positions are      *)
(* 0-based and EPOS is the invalid position.                               *)
(***************************************************************************)
EPOS == -1

Filerange(a, b) == [start |-> a, end |-> b]

text_range_valid(r) == r.start # EPOS /\ r.end # EPOS /\ r.start <= r.end

text_range_size(r) == IF text_range_valid(r) THEN r.end - r.start ELSE 0

text_range_empty == Filerange(EPOS, EPOS)

text_range_new(a, b) == IF a <= b THEN Filerange(a, b) ELSE Filerange(b, a)

text_size(txt) == Len(txt)

\* text_insert: fails (and changes nothing) when pos lies beyond the text
text_insert(txt, pos, data) ==
    IF pos >= 0 /\ pos <= Len(txt)
    THEN SubSeq(txt, 1, pos) \o data \o SubSeq(txt, pos + 1, Len(txt))
    ELSE txt

\* text_delete_range: fails (and changes nothing) for an invalid range or one
\* that reaches beyond the text
text_delete_range(txt, r) ==
    IF text_range_valid(r) /\ r.end <= Len(txt)
    THEN SubSeq(txt, 1, r.start) \o SubSeq(txt, r.end + 1, Len(txt))
    ELSE txt

(***************************************************************************)
(* Files, windows and selections.  Window w shows file w; file FI has       *)
(* file->internal set and no window; F2 is the file of the window that     *)
(* :new creates.  A selection is (anchor, cursor, anchored, disposed); a   *)
(* selection pointer is its index in sels[w], 0 is NULL.                   *)
(***************************************************************************)
Files == {"F1", "F2", "FI"}
Wins == {"F1", "F2"}
FileOrder == <<"F1", "F2", "FI">>

internal(f) == f = "FI"

NoWin == "none"

FileText(f) ==
    CASE f = "F1" -> <<"a", "b", "\n", "c">>
      [] f = "F2" -> <<>>
      [] OTHER    -> <<"z">>

\* disposed: the selection was removed from its view and freed; dead: it is
\* the one view->selection_dead points to
Selection(anchor, cursor, anchored) ==
    [anchor |-> anchor, cursor |-> cursor, anchored |-> anchored,
     disposed |-> FALSE, dead |-> FALSE]

Cursor(pos) == Selection(pos, pos, FALSE)

view_cursors_pos(s) == s.cursor

view_selections_get(s) == text_range_new(s.anchor, s.cursor)

view_cursors_to(s, pos) ==
    [s EXCEPT !.cursor = pos, !.anchor = IF s.anchored THEN s.anchor ELSE pos]

view_selections_set(s, r) == [s EXCEPT !.anchor = r.start, !.cursor = r.end]

view_selection_clear(s) == [s EXCEPT !.anchored = FALSE, !.anchor = s.cursor]

\* the selections of a view: the indices of ss that are not disposed
LiveSelections(ss) == {i \in 1..Len(ss) : ~ss[i].disposed}

selection_count(ss) == Cardinality(LiveSelections(ss))

\* view_selections(view): the first selection, 0 when there is none
view_selections(ss) ==
    IF LiveSelections(ss) = {} THEN 0
    ELSE CHOOSE i \in LiveSelections(ss) : \A j \in LiveSelections(ss) : i <= j

view_selections_next(ss, s) ==
    LET later == {i \in LiveSelections(ss) : i > s}
    IN  IF later = {} THEN 0 ELSE CHOOSE i \in later : \A j \in later : i <= j

\* view_selections_dispose_force on selection s of the view ss: the selection
\* is removed unless it is the last one of its view, which is cleared and
\* remembered as dead instead
view_selections_dispose_force(ss, s) ==
    IF s = 0 \/ ss[s].disposed THEN ss
    ELSE IF selection_count(ss) > 1 THEN [ss EXCEPT ![s].disposed = TRUE]
    ELSE IF \E i \in LiveSelections(ss) : ss[i].dead THEN ss
    ELSE [ss EXCEPT ![s] = [view_selection_clear(ss[s]) EXCEPT !.dead = TRUE]]

(***************************************************************************)
(* Transcript (struct Change, change_new, sam_insert/delete/change)        *)
(***************************************************************************)
TRANSCRIPT_INSERT == "TRANSCRIPT_INSERT"
TRANSCRIPT_DELETE == "TRANSCRIPT_DELETE"
TRANSCRIPT_CHANGE == "TRANSCRIPT_CHANGE"

IsDelete(type) == type \in {TRANSCRIPT_DELETE, TRANSCRIPT_CHANGE}
IsInsert(type) == type \in {TRANSCRIPT_INSERT, TRANSCRIPT_CHANGE}

Change(type, w, sel, range) ==
    [type |-> type, win |-> w, sel |-> sel, range |-> range, data |-> <<>>, count |-> 0]

\* (Transcript){0}; latest is the index of the node t->latest points to
NoTranscript == [changes |-> <<>>, latest |-> 0, error |-> "SAM_ERR_OK"]

\* an entry that takes the place of the one at i
overwrite_at(seq, i, x) == IF i <= Len(seq) THEN [seq EXCEPT ![i] = x] ELSE Append(seq, x)

\* new_change->next = next; the entry before it is linked to new_change
InsertAt(seq, i, x) == SubSeq(seq, 1, i - 1) \o <<x>> \o SubSeq(seq, i, Len(seq))

\* a scan that compares the start of each entry, not its end
RECURSIVE change_scan_by_start(_, _, _)
change_scan_by_start(changes, next, range) ==
    IF next <= Len(changes) /\ changes[next].range.start <= range.start
    THEN change_scan_by_start(changes, next + 1, range)
    ELSE next

\* while (next && next->range.end <= range->start) next = next->next;
RECURSIVE change_scan(_, _, _)
change_scan(changes, next, range) ==
    IF next <= Len(changes) /\ changes[next].range.end <= range.start
    THEN change_scan(changes, next + 1, range)
    ELSE next

\* a shortcut taken whenever t->latest is set, without comparing the ranges
change_first_unchecked(t, range) == IF t.latest # 0 THEN t.latest + 1 ELSE 1

\* where change_new starts its scan: after t->latest or at t->changes
change_first(t, range) ==
    IF t.latest # 0 /\ t.changes[t.latest].range.end <= range.start
    THEN t.latest + 1
    ELSE 1

\* a test that compares the start of the next entry with the start of the range
change_conflict_by_start(changes, next, range) ==
    next <= Len(changes) /\ changes[next].range.start < range.start

\* next && next->range.start < range->end
change_conflict(changes, next, range) ==
    next <= Len(changes) /\ changes[next].range.start < range.end

\* change_new: the transcript afterwards and the index of the new node (0: NULL)
change_new(t, type, range, w, sel) ==
    IF ~text_range_valid(range) THEN [t |-> t, result |-> 0]
    ELSE LET next == change_scan(t.changes, change_first(t, range), range)
         IN  IF change_conflict(t.changes, next, range)
             THEN [t |-> [t EXCEPT !.error = "SAM_ERR_CONFLICT"], result |-> 0]
             ELSE [t |-> [t EXCEPT !.changes = InsertAt(@, next, Change(type, w, sel, range)),
                                   !.latest = next],
                   result |-> next]

\* c->data = data; c->len = len; c->count = count;
change_fill(r, data, count) ==
    IF r.result = 0 THEN r
    ELSE [r EXCEPT !.t.changes[r.result].data = data, !.t.changes[r.result].count = count]

sam_insert(t, w, sel, pos, data, count) ==
    change_fill(change_new(t, TRANSCRIPT_INSERT, text_range_new(pos, pos), w, sel), data, count)

sam_delete(t, w, sel, range) == change_new(t, TRANSCRIPT_DELETE, range, w, sel)

sam_change(t, w, sel, range, data, count) ==
    change_fill(change_new(t, TRANSCRIPT_CHANGE, range, w, sel), data, count)

\* sam_transcript_error
sam_transcript_error(t, error) == IF t.changes # <<>> THEN [t EXCEPT !.error = error] ELSE t

(***************************************************************************)
(* The apply loop of sam_cmd for one file                                  *)
(***************************************************************************)
RECURSIVE Repeat(_, _)
Repeat(data, n) == IF n <= 0 THEN <<>> ELSE data \o Repeat(data, n - 1)

\* for (i < c->count) { text_insert(text, c->range.start, data, len); delta += len; }
\* one insertion whatever the count
insert_once(txt, pos, data, n) == IF n <= 0 THEN txt ELSE text_insert(txt, pos, data)

RECURSIVE insert_times(_, _, _, _)
insert_times(txt, pos, data, n) ==
    IF n <= 0 THEN txt ELSE insert_times(text_insert(txt, pos, data), pos, data, n - 1)

HasNewline(data) == \E i \in 1..Len(data) : data[i] = "\n"

\* the selection left as it was
selection_kept(ss, w, i, s) == ss

UpdateSel(ss, w, i, s) == [ss EXCEPT ![w][i] = s]

\* The body of the loop over t->changes for the change c: st is
\* (txt, delta, sels), vis is vis->mode->visual on entry to sam_cmd.
apply_change(st, c, vis) ==
    LET r    == Filerange(c.range.start + st.delta, c.range.end + st.delta)
        txt1 == IF IsDelete(c.type) THEN text_delete_range(st.txt, r) ELSE st.txt
        d1   == IF IsDelete(c.type) THEN st.delta - text_range_size(r) ELSE st.delta
        ss1  == IF IsDelete(c.type) /\ c.sel # 0 /\ c.type = TRANSCRIPT_DELETE
                THEN IF vis
                     THEN [st.sels EXCEPT ![c.win] = view_selections_dispose_force(@, c.sel)]
                     ELSE UpdateSel(st.sels, c.win, c.sel,
                                    view_cursors_to(st.sels[c.win][c.sel], r.start))
                ELSE st.sels
        txt2 == IF IsInsert(c.type) THEN insert_times(txt1, r.start, c.data, c.count) ELSE txt1
        d2   == IF IsInsert(c.type) /\ c.count > 0 THEN d1 + Len(c.data) * c.count ELSE d1
        ir   == text_range_new(r.start, r.start + Len(c.data) * c.count)
        ss2  == IF ~IsInsert(c.type) THEN ss1
                ELSE IF c.sel # 0 THEN
                    UpdateSel(ss1, c.win, c.sel,
                        IF vis THEN [view_selections_set(ss1[c.win][c.sel], ir) EXCEPT !.anchored = TRUE]
                        ELSE IF HasNewline(c.data) THEN view_cursors_to(ss1[c.win][c.sel], ir.start)
                        ELSE view_cursors_to(ss1[c.win][c.sel], ir.end))
                ELSE IF vis THEN
                    [ss1 EXCEPT ![c.win] = Append(@, [Selection(ir.start, ir.end, TRUE) EXCEPT !.anchored = TRUE])]
                ELSE ss1
    IN  [txt |-> txt2, delta |-> d2, sels |-> ss2]

RECURSIVE apply_changes(_, _, _)
apply_changes(st, changes, vis) ==
    IF changes = <<>> THEN st
    ELSE apply_changes(apply_change(st, Head(changes), vis), Tail(changes), vis)

\* One iteration of the loop over vis->files in sam_cmd: an internal file and
\* a file whose transcript has an error are skipped.
apply_file(f, txt, t, ss, vis) ==
    IF internal(f) \/ t.error # "SAM_ERR_OK" THEN [txt |-> txt, delta |-> 0, sels |-> ss]
    ELSE apply_changes([txt |-> txt, delta |-> 0, sels |-> ss], t.changes, vis)

\* a Map without entries
NoMap == <<>>

\* the values of the options of vis and of its window: every Bool option
\* off, every Number option 0
NoOptions ==
    [autoindent |-> FALSE, expandtab |-> FALSE, change_colors |-> FALSE, ignorecase |-> FALSE,
     options |-> {}, tabwidth |-> 0, colorcolumn |-> 0, wrapcolumn |-> 0, escdelay |-> 0,
     shell |-> <<>>]

\* what command_write and command_wq read of a File: whether file->name is
\* set, file->fd, and text_modified(file->text)
NoFile == [named |-> FALSE, fd |-> -1, modified |-> FALSE]

\* vis before sam_init: no map is allocated
NoVis ==
    [cmds |-> NoMap, usercmds |-> [allocated |-> FALSE, entries |-> NoMap], opt |-> NoOptions,
     files |-> [w \in Wins |-> NoFile], options |-> NoMap, option_defs |-> <<>>]

(***************************************************************************)
(* History                                                                 *)
(***************************************************************************)
\* the locals of extract before it is entered
NoExtract ==
    [regex |-> "NULL", is_x |-> TRUE, simulate |-> FALSE, range |-> text_range_empty,
     start |-> 0, end |-> 0, last_start |-> EPOS, count |-> 0, ret |-> TRUE,
     ranges |-> <<>>, iterations |-> 0]

NoHist ==
    [text0 |-> [f \in Files |-> FileText(f)], enq |-> <<>>, overlap |-> {},
     calls |-> <<>>, dispatches |-> <<>>, rejected |-> <<>>, failed |-> FALSE,
     failed_on |-> {}, looped |-> {}, loop_sels |-> [w \in Wins |-> <<>>],
     interrupted |-> {}, invocations |-> 1,
     call |-> [op |-> "none", name |-> <<>>, result |-> FALSE], editor |-> NoVis,
     written |-> {}, extract |-> NoExtract,
     option_call |-> [op |-> "none", name |-> <<>>, opt |-> 0, result |-> FALSE],
     shortcut |-> FALSE]

\* vis->sam on entry to sam_cmd, with the locals of the calls in progress:
\* commands is the chain of Command structs of execute_token_stream (command
\* is its last element); win and sel are the window and the selection of
\* the loop of execute_command; visual and primary_pos are locals of sam_cmd;
\* log holds the messages that parsing the address passed to sam_error_at
NoSam ==
    [should_exit |-> FALSE, did_looping_command |-> FALSE, nesting_level |-> 0,
     commands |-> <<>>, win |-> NoWin, sel |-> 0, visual |-> FALSE, primary_pos |-> EPOS,
     log |-> <<>>]

(***************************************************************************)
(* The lexer alone: every line over LexAlphabet of at most MaxLineLen      *)
(* bytes is lexed.                                                         *)
(***************************************************************************)
LexAlphabet == {"a", " ", "1", "{", "}", "/", ">"}

RECURSIVE LinesUpTo(_)
LinesUpTo(n) ==
    IF n = 0 THEN {<<>>}
    ELSE LET shorter == LinesUpTo(n - 1)
         IN  shorter \cup {Append(l, c) : l \in {s \in shorter : Len(s) = n - 1}, c \in LexAlphabet}

LexLines == LinesUpTo(MaxLineLen) \ {<<>>}

InitLex ==
    /\ pc = "entry"
    /\ command_line \in LexLines
    /\ tokens = <<>>
    /\ read_index = 0
    /\ text = [f \in Files |-> FileText(f)]
    /\ transcript = [f \in Files |-> NoTranscript]
    /\ sels = [w \in Wins |-> <<Cursor(0)>>]
    /\ visual = FALSE
    /\ win = "F1"
    /\ windows = [w \in Wins |-> IF w = "F1" THEN "open" ELSE "unused"]
    /\ sam = NoSam
    /\ shell_register = <<>>
    /\ err = "SAM_ERR_OK"
    /\ editor = NoVis
    /\ hist = NoHist

\* sam_cmd up to the return of sam_lex
SamLex ==
    /\ pc = "entry"
    /\ LET r == sam_lex(command_line)
       IN  /\ tokens' = r.toks
           /\ pc' = IF r.trap THEN "trapped" ELSE "lexed"
    /\ UNCHANGED <<command_line, read_index, fileVars, viewVars, engineVars, hist>>

SpecLex == InitLex /\ [][SamLex]_vars

(***************************************************************************)
(* The transcript alone: up to MaxChanges calls of sam_insert, sam_delete  *)
(* and sam_change on the transcript of file F1 (window F1, its first       *)
(* selection), then the apply loop of sam_cmd.                             *)
(***************************************************************************)
TrPositions == {0, 1, 2}

TrRanges == {r \in {Filerange(a, b) : a \in TrPositions, b \in TrPositions} : r.start < r.end}

\* inserts at every position, deletes and changes of every non-empty range,
\* of one empty range and (delete) of an invalid range
TrRequests ==
    {[fn |-> "sam_insert", range |-> Filerange(a, a), data |-> d.data, count |-> d.count] :
        a \in TrPositions, d \in {[data |-> <<"X">>, count |-> 1], [data |-> <<"Y">>, count |-> 2]}}
    \cup {[fn |-> "sam_delete", range |-> r, data |-> <<>>, count |-> 0] :
            r \in TrRanges \cup {Filerange(1, 1), text_range_empty}}
    \cup {[fn |-> "sam_change", range |-> r, data |-> <<"Z">>, count |-> 1] :
            r \in TrRanges \cup {Filerange(1, 1)}}

\* the call a request stands for
sam_request(t, w, sel, q) ==
    CASE q.fn = "sam_insert" -> sam_insert(t, w, sel, q.range.start, q.data, q.count)
      [] q.fn = "sam_delete" -> sam_delete(t, w, sel, q.range)
      [] OTHER               -> sam_change(t, w, sel, q.range, q.data, q.count)

\* two ranges share at least one byte, or one is an empty range strictly inside the other
Overlaps(r1, r2) ==
    /\ text_range_valid(r1) /\ text_range_valid(r2)
    /\ r1.start < r2.end /\ r2.start < r1.end

OverlapsSome(t, range) == \E i \in 1..Len(t.changes) : Overlaps(t.changes[i].range, range)

\* history of an enqueue on file f: the request, and the error the transcript
\* was left with when the request overlapped a change already enqueued
Enqueued(h, f, q, t0, t1) ==
    [h EXCEPT !.enq = Append(@, q),
              !.overlap = IF OverlapsSome(t0, q.range) THEN @ \cup {<<f, t1.error>>} ELSE @]

InitTranscript ==
    /\ pc = "exec"
    /\ command_line = <<"d">>
    /\ tokens = <<>>
    /\ read_index = 0
    /\ text = [f \in Files |-> FileText(f)]
    /\ transcript = [f \in Files |-> NoTranscript]
    /\ sels = [w \in Wins |-> <<Cursor(0)>>]
    /\ visual = FALSE
    /\ win = "F1"
    /\ windows = [w \in Wins |-> IF w = "F1" THEN "open" ELSE "unused"]
    /\ sam = NoSam
    /\ shell_register = <<>>
    /\ err = "SAM_ERR_OK"
    /\ editor = NoVis
    /\ hist = NoHist

TrEnqueue ==
    /\ pc = "exec"
    /\ Len(hist.enq) < MaxChanges
    /\ \E q \in TrRequests :
          LET r == sam_request(transcript["F1"], "F1", 1, q)
          IN  /\ transcript' = [transcript EXCEPT !["F1"] = r.t]
              /\ hist' = [Enqueued(hist, "F1", q, transcript["F1"], r.t) EXCEPT
                              !.shortcut = /\ text_range_valid(q.range)
                                           /\ change_first(transcript["F1"], q.range) # 1]
    /\ UNCHANGED <<pc, lexVars, text, viewVars, engineVars>>

\* the loop over vis->files of sam_cmd (only F1 has changes here)
TrApply ==
    /\ pc = "exec"
    /\ LET r == apply_file("F1", text["F1"], transcript["F1"], sels, visual)
       IN  /\ text' = [text EXCEPT !["F1"] = r.txt]
           /\ sels' = r.sels
    /\ pc' = "done"
    /\ UNCHANGED <<lexVars, transcript, visual, win, windows, engineVars, hist>>

SpecTranscript == InitTranscript /\ [][TrEnqueue \/ TrApply]_vars

(***************************************************************************)
(* Reading the token stream (sam.c)                                        *)
(***************************************************************************)
ISALPHA(c) ==
    c \in {"a", "b", "c", "d", "e", "f", "g", "h", "i", "j", "k", "l", "m",
           "n", "o", "p", "q", "r", "s", "t", "u", "v", "w", "x", "y", "z",
           "A", "B", "C", "D", "E", "F", "G", "H", "I", "J", "K", "L", "M",
           "N", "O", "P", "Q", "R", "S", "T", "U", "V", "W", "X", "Y", "Z"}

\* BETWEEN(c, '!', '~') && !(ISALPHA(c) || ISDIGIT(c)); the grave accent is
\* punctuation too but occurs in no line of the model
ISPUNCT(c) ==
    c \in {"!", "\"", "#", "$", "%", "&", "'", "(", ")", "*", "+", ",", "-", ".", "/",
           ":", ";", "<", "=", ">", "?", "@", "[", "\\", "]", "^", "_", "{", "|", "}", "~"}

IS_SAM_ADDRESS_DELIMITER(c) == c \in {";", ",", "+", "-"}

\* (SamToken){.type = ST_INVALID}: start is NULL (-1), length 0
InvalidToken == [type |-> "ST_INVALID", start |-> -1, length |-> 0]

sam_token_peek(toks, ri) == IF ri < Len(toks) THEN toks[ri + 1] ELSE InvalidToken

\* the read_index sam_token_pop leaves
sam_token_pop(toks, ri) == IF ri < Len(toks) THEN ri + 1 ELSE ri

\* the first byte of a token: *token.start
token_byte(raw, tok) == raw[tok.start + 1]

\* sam_token_join: ASSERT(a.start + a.length == b.start)
sam_token_join_ok(a, b) == a.start + a.length = b.start

\* The end of the command name that starts with token start: the offset,
\* counted from start.start, of the first byte that cannot belong to it.
RECURSIVE command_name_end(_, _, _)
command_name_end(raw, start, end) ==
    LET len == Len(raw) - start.start
    IN  IF end >= len THEN end
        ELSE LET cp    == raw[start.start + end + 1]
                 valid == ~ISSPACE(cp) /\ ~ISDIGIT(cp) /\ (~ISPUNCT(cp) \/ cp = "_")
             IN  IF valid \/ (cp = "-" /\ end + 1 < len)
                 THEN command_name_end(raw, start, end + 1)
                 ELSE end

\* while (result.length != end) result.length += sam_token_pop(s).length;
\* the loop never ends when the tokens popped do not add up to end
RECURSIVE join_tokens_up_to(_, _, _, _)
join_tokens_up_to(toks, ri, length, end) ==
    IF length = end THEN [length |-> length, read_index |-> ri, hang |-> FALSE]
    ELSE IF ri >= Len(toks) THEN [length |-> length, read_index |-> ri, hang |-> TRUE]
    ELSE join_tokens_up_to(toks, ri + 1, length + toks[ri + 1].length, end)

sam_token_join_command_name(raw, toks, ri, start) ==
    LET r == join_tokens_up_to(toks, ri, start.length, command_name_end(raw, start, start.length))
    IN  [token |-> [start EXCEPT !.length = r.length], read_index |-> r.read_index, hang |-> r.hang]

\* sam_token_try_pop_number, second half: a number that follows is joined
try_pop_digits(toks, r, p) ==
    IF p.type = "ST_NUMBER"
    THEN [token |-> [r.token EXCEPT !.length = r.token.length + p.length, !.type = "ST_NUMBER"],
          read_index |-> sam_token_pop(toks, r.read_index),
          trap |-> ~sam_token_join_ok(r.token, p)]
    ELSE r

\* sam_token_try_pop_number, first half: a sign is popped
try_pop_sign(raw, toks, ri, p) ==
    IF p.type = "ST_DELIMITER" /\ token_byte(raw, p) \in {"+", "-"}
    THEN [token |-> [type |-> "ST_INVALID", start |-> p.start, length |-> p.length],
          read_index |-> sam_token_pop(toks, ri), trap |-> FALSE]
    ELSE [token |-> [type |-> "ST_INVALID", start |-> p.start, length |-> 0],
          read_index |-> ri, trap |-> FALSE]

\* sam_token_try_pop_number: an optional sign and a number, joined
sam_token_try_pop_number(raw, toks, ri) ==
    try_pop_digits(toks, try_pop_sign(raw, toks, ri, sam_token_peek(toks, ri)),
                   sam_token_peek(toks, try_pop_sign(raw, toks, ri, sam_token_peek(toks, ri)).read_index))

\* sam_token_check_pop_force_flag
sam_token_check_pop_force_flag(raw, toks, ri) ==
    LET p == sam_token_peek(toks, ri)
        result == p.type = "ST_DELIMITER" /\ token_byte(raw, p) = "!"
    IN  [result |-> result, read_index |-> IF result THEN sam_token_pop(toks, ri) ELSE ri]

\* the loop of sam_delimited_string: pop up to and including the closing
\* delimiter; length stays 0 when the line ends first
RECURSIVE delimited_scan(_, _, _, _, _)
delimited_scan(raw, toks, ri, delimiter, start) ==
    IF ri >= Len(toks) THEN [length |-> 0, read_index |-> ri]
    ELSE LET token == toks[ri + 1]
         IN  IF token.type = "ST_DELIMITER" /\ token_byte(raw, token) = token_byte(raw, delimiter)
             THEN [length |-> token.start - start, read_index |-> ri + 1]
             ELSE delimited_scan(raw, toks, ri + 1, delimiter, start)

\* if (result.start && !result.length) ...; if (result.length) result.type = ST_STRING;
delimited_token(raw, start, r) ==
    IF start # -1 /\ r.length = 0
    THEN [token |-> [type |-> IF Len(raw) - start # 0 THEN "ST_STRING" ELSE "ST_INVALID",
                     start |-> start, length |-> Len(raw) - start],
          read_index |-> r.read_index]
    ELSE [token |-> [type |-> IF r.length # 0 THEN "ST_STRING" ELSE "ST_INVALID",
                     start |-> start, length |-> r.length],
          read_index |-> r.read_index]

\* the delimiter is popped: result.start = sam_token_peek(s).start and the loop
delimited_after(raw, toks, ri, delimiter) ==
    delimited_token(raw, sam_token_peek(toks, ri).start,
                    delimited_scan(raw, toks, ri, delimiter, sam_token_peek(toks, ri).start))

delimited_at(raw, toks, ri, p) ==
    IF p.type # "ST_DELIMITER" THEN [token |-> InvalidToken, read_index |-> ri]
    ELSE delimited_after(raw, toks, sam_token_pop(toks, ri), p)

sam_delimited_string(raw, toks, ri) == delimited_at(raw, toks, ri, sam_token_peek(toks, ri))

DigitValue(c) ==
    CASE c = "0" -> 0 [] c = "1" -> 1 [] c = "2" -> 2 [] c = "3" -> 3 [] c = "4" -> 4
      [] c = "5" -> 5 [] c = "6" -> 6 [] c = "7" -> 7 [] c = "8" -> 8 [] OTHER -> 9

\* the digit loop of s8_to_i64 (the lines of the model are far too short to
\* reach the saturation at I64_MAX)
RECURSIVE digits_value(_, _, _)
digits_value(s, i, result) ==
    IF i <= Len(s) /\ ISDIGIT(s[i]) THEN digits_value(s, i + 1, 10 * result + DigitValue(s[i]))
    ELSE result

s8_to_i64(s) ==
    IF s # <<>> /\ s[1] = "-" THEN 0 - digits_value(s, 2, 0)
    ELSE IF s # <<>> /\ s[1] = "+" THEN digits_value(s, 2, 0)
    ELSE digits_value(s, 1, 0)

check_count_of(raw, r) ==
    [count      |-> IF r.token.type # "ST_INVALID" /\ s8_to_i64(sam_token_to_s8(raw, r.token)) > 0
                    THEN s8_to_i64(sam_token_to_s8(raw, r.token)) ELSE 1,
     read_index |-> r.read_index,
     trap       |-> r.trap]

\* check_count: 1 unless a number in 1..I32_MAX follows
check_count(raw, toks, ri) == check_count_of(raw, sam_token_try_pop_number(raw, toks, ri))

(***************************************************************************)
(* Positions, lines and searches in a text (text.h)                        *)
(***************************************************************************)
\* the second range alone
text_range_second(r1, r2) == r2

\* merge two ranges into one that contains both
text_range_union(r1, r2) ==
    IF ~text_range_valid(r1) THEN r2
    ELSE IF ~text_range_valid(r2) THEN r1
    ELSE Filerange(IF r1.start < r2.start THEN r1.start ELSE r2.start,
                   IF r1.end > r2.end THEN r1.end ELSE r2.end)

\* the next character (the texts of the model are ASCII)
text_char_next(txt, pos) == IF pos >= 0 /\ pos < Len(txt) THEN pos + 1 ELSE pos

\* the start of the line that contains pos
RECURSIVE text_line_begin(_, _)
text_line_begin(txt, pos) ==
    IF pos <= 0 THEN 0
    ELSE IF pos > Len(txt) THEN text_line_begin(txt, Len(txt))
    ELSE IF txt[pos] = "\n" THEN pos
    ELSE text_line_begin(txt, pos - 1)

\* the start of the line after the one that contains pos, or the end of the text
RECURSIVE text_line_next(_, _)
text_line_next(txt, pos) ==
    IF pos < 0 \/ pos >= Len(txt) THEN Len(txt)
    ELSE IF txt[pos + 1] = "\n" THEN pos + 1
    ELSE text_line_next(txt, pos + 1)

text_object_line(txt, pos) == Filerange(text_line_begin(txt, pos), text_line_next(txt, pos))

\* the start of line lineno (counted from 1), EPOS when the text has fewer lines
RECURSIVE text_pos_by_lineno(_, _)
text_pos_by_lineno(txt, lineno) ==
    IF lineno <= 1 THEN 0
    ELSE LET prev == text_pos_by_lineno(txt, lineno - 1)
         IN  IF prev = EPOS \/ ~(\E i \in (prev + 1)..Len(txt) : txt[i] = "\n") THEN EPOS
             ELSE text_line_next(txt, prev)

\* the number of the line that contains pos (counted from 1)
text_lineno_by_pos(txt, pos) ==
    1 + Cardinality({i \in 1..Len(txt) : i <= pos /\ txt[i] = "\n"})

\* a pattern is matched literally: the bytes of txt at pos are those of pattern
MatchesAt(txt, pos, pattern) ==
    /\ pos >= 0 /\ pos + Len(pattern) <= Len(txt)
    /\ \A i \in 1..Len(pattern) : txt[pos + i] = pattern[i]

text_object_search_forward(txt, pos, pattern) ==
    LET found == {p \in 0..Len(txt) : p >= pos /\ MatchesAt(txt, p, pattern)}
    IN  IF found = {} THEN text_range_empty
        ELSE LET p == CHOOSE q \in found : \A o \in found : q <= o
             IN  Filerange(p, p + Len(pattern))

text_object_search_backward(txt, pos, pattern) ==
    LET found == {p \in 0..Len(txt) : p + Len(pattern) <= pos /\ MatchesAt(txt, p, pattern)}
    IN  IF found = {} THEN text_range_empty
        ELSE LET p == CHOOSE q \in found : \A o \in found : q >= o
             IN  Filerange(p, p + Len(pattern))

(***************************************************************************)
(* Addresses (parse_address, evaluate_address)                             *)
(***************************************************************************)
\* (AddressSide){0}
NoAddressSide == [type |-> "AT_INVALID", number |-> 0, character |-> "", regex |-> <<>>]

\* (Address){0}
NoAddress == [left |-> NoAddressSide, right |-> NoAddressSide, delimeter |-> ""]

\* vis_mark_from: the marks are the lower case letters
vis_mark_valid(c) == c \in {"a", "b", "c", "d", "e", "f", "g", "h", "i", "j", "k", "l", "m",
                            "n", "o", "p", "q", "r", "s", "t", "u", "v", "w", "x", "y", "z"}

\* parse_address_side for the token just popped: the side, the read_index,
\* the tokens (the mark case shortens the token that follows) and the
\* messages passed to sam_error_at
parse_address_side(raw, toks, ri, token) ==
    LET none == [side |-> NoAddressSide, read_index |-> ri, tokens |-> toks, log |-> <<>>]
        p    == sam_token_peek(toks, ri)
        cp   == token_byte(raw, token)
    IN  IF token.type = "ST_NUMBER" THEN
            [none EXCEPT !.side.type = "AT_LINE",
                         !.side.number = s8_to_i64(sam_token_to_s8(raw, token))]
        ELSE IF cp = "#" THEN
            IF p.type = "ST_NUMBER"
            THEN [none EXCEPT !.side.type = "AT_BYTE",
                              !.side.number = s8_to_i64(sam_token_to_s8(raw, p)),
                              !.read_index = sam_token_pop(toks, ri)]
            ELSE [none EXCEPT !.log = <<"expected byte position">>]
        ELSE IF cp = "'" THEN
            IF p.type = "ST_STRING"
            THEN [none EXCEPT !.side.type = "AT_MARK",
                              !.side.character = token_byte(raw, p),
                              !.tokens[ri + 1].start = p.start + 1,
                              !.tokens[ri + 1].length = p.length - 1,
                              !.log = IF vis_mark_valid(token_byte(raw, p)) THEN <<>>
                                      ELSE <<"invalid mark">>]
            ELSE [none EXCEPT !.log = <<"expected mark">>]
        ELSE IF cp \in {"/", "?"} THEN
            IF p.type # "ST_INVALID"
            THEN [none EXCEPT !.side.type = IF cp = "/" THEN "AT_REGEX_FORWARD" ELSE "AT_REGEX_BACKWARD",
                              !.side.regex = sam_token_to_s8(raw, p),
                              !.read_index = sam_token_pop(toks, ri)]
            ELSE [none EXCEPT !.log = <<"expected regular expression">>]
        ELSE IF cp \in {"$", ".", "%"} THEN
            [none EXCEPT !.side.type = "AT_CHARACTER", !.side.character = cp]
        ELSE none

\* parse_address, the right side
parse_address_right(raw, a) ==
    IF sam_token_peek(a.tokens, a.read_index).type \in {"ST_NUMBER", "ST_DELIMITER"}
    THEN [parse_address_side(raw, a.tokens, sam_token_pop(a.tokens, a.read_index),
                             sam_token_peek(a.tokens, a.read_index))
            EXCEPT !.side = [left |-> a.side, right |-> @, delimeter |-> a.delimeter],
                   !.log = a.log \o @]
    ELSE [side |-> [left |-> a.side, right |-> NoAddressSide, delimeter |-> a.delimeter],
          read_index |-> a.read_index, tokens |-> a.tokens, log |-> a.log]

\* parse_address, the delimiter
parse_address_delimiter(raw, l) ==
    IF /\ sam_token_peek(l.tokens, l.read_index).type = "ST_DELIMITER"
       /\ IS_SAM_ADDRESS_DELIMITER(token_byte(raw, sam_token_peek(l.tokens, l.read_index)))
    THEN [side |-> l.side, delimeter |-> token_byte(raw, sam_token_peek(l.tokens, l.read_index)),
          read_index |-> sam_token_pop(l.tokens, l.read_index), tokens |-> l.tokens, log |-> l.log]
    ELSE [side |-> l.side, delimeter |-> ";", read_index |-> l.read_index, tokens |-> l.tokens,
          log |-> l.log]

\* parse_address, the left side
parse_address_left(raw, toks, ri, t) ==
    IF \/ t.type = "ST_NUMBER"
       \/ t.type = "ST_DELIMITER" /\ token_byte(raw, t) \notin {"?", "/", "$"}
    THEN parse_address_side(raw, toks, sam_token_pop(toks, ri), t)
    ELSE [side |-> NoAddressSide, read_index |-> ri, tokens |-> toks, log |-> <<>>]

address_parsed(r) ==
    [address |-> r.side, read_index |-> r.read_index, tokens |-> r.tokens, log |-> r.log]

parse_address(raw, toks, ri) ==
    address_parsed(
        parse_address_right(raw,
            parse_address_delimiter(raw, parse_address_left(raw, toks, ri, sam_token_peek(toks, ri)))))

\* text_range_new(line, text_line_next(txt, line)); a movement from EPOS is
\* not possible and leaves EPOS
line_range(txt, line) ==
    IF line = EPOS THEN Filerange(EPOS, EPOS)
    ELSE text_range_new(line, text_line_next(txt, line))

\* evaluate_address_side; no file of the model has a mark set.  The side is
\* never AT_INVALID here (ASSERT(0)): every caller tests the type first.
evaluate_address_side(as, txt, range) ==
    CASE as.type = "AT_BYTE" -> Filerange(as.number, as.number)
      [] as.type = "AT_CHARACTER" ->
            (CASE as.character = "$" -> Filerange(text_size(txt), text_size(txt))
               [] as.character = "." -> range
               [] as.character = "%" -> text_range_new(0, text_size(txt))
               [] OTHER -> text_range_empty)
      [] as.type = "AT_LINE" ->
            IF as.number # 0
            THEN line_range(txt, text_pos_by_lineno(txt, as.number))
            ELSE Filerange(0, 0)
      [] as.type = "AT_MARK" -> Filerange(EPOS, EPOS)
      [] as.type = "AT_REGEX_BACKWARD" -> text_object_search_backward(txt, range.start, as.regex)
      [] as.type = "AT_REGEX_FORWARD" -> text_object_search_forward(txt, range.end, as.regex)
      [] OTHER -> text_range_empty

evaluate_address(addr, txt, range) ==
    IF addr.delimeter \in {"+", "-"} THEN
        LET right == IF addr.right.type # "AT_INVALID"
                     THEN evaluate_address_side(addr.right, txt, range)
                     ELSE Filerange(0, 0)
        IN  IF addr.delimeter = "+" THEN
                LET offset == IF right.end # EPOS THEN right.end ELSE 1
                    end    == IF range.start < range.end /\ range.end - 1 < Len(txt)
                                 /\ range.end >= 1 /\ txt[range.end] = "\n"
                              THEN range.end - 1 ELSE range.end
                IN  line_range(txt, text_pos_by_lineno(txt, text_lineno_by_pos(txt, end) + offset))
            ELSE
                LET offset == IF right.start # EPOS THEN right.start ELSE 1
                    lineno == text_lineno_by_pos(txt, range.start)
                IN  line_range(txt, IF offset < lineno THEN text_pos_by_lineno(txt, lineno - offset) ELSE 0)
    ELSE IF addr.delimeter \in {",", ";"} THEN
        LET left   == IF addr.left.type # "AT_INVALID"
                      THEN evaluate_address_side(addr.left, txt, range)
                      ELSE Filerange(0, 0)
            range1 == IF addr.delimeter = ";" THEN left ELSE range
            right  == IF addr.right.type # "AT_INVALID"
                      THEN evaluate_address_side(addr.right, txt, range1)
                      ELSE Filerange(text_size(txt), text_size(txt))
        IN  text_range_union(left, right)
    ELSE text_range_empty

(***************************************************************************)
(* Command definitions and the Command struct                              *)
(***************************************************************************)
\* The entries of command_definition_table that the lines of the model name.
command_definition_table ==
    {[name |-> <<"a">>, fn |-> "command_append", flags |-> {"CMD_TEXT", "CMD_WIN"}],
     [name |-> <<"c">>, fn |-> "command_change", flags |-> {"CMD_TEXT", "CMD_WIN"}],
     [name |-> <<"d">>, fn |-> "command_delete", flags |-> {"CMD_WIN"}],
     [name |-> <<"g">>, fn |-> "command_guard",
      flags |-> {"CMD_COUNT", "CMD_REGEX", "CMD_CMD", "CMD_WIN"}],
     [name |-> <<"i">>, fn |-> "command_insert", flags |-> {"CMD_TEXT", "CMD_WIN"}],
     [name |-> <<"p">>, fn |-> "command_print", flags |-> {"CMD_WIN"}],
     [name |-> <<"v">>, fn |-> "command_guard",  flags |-> {"CMD_COUNT", "CMD_REGEX", "CMD_CMD"}],
     [name |-> <<"x">>, fn |-> "command_extract",
      flags |-> {"CMD_CMD", "CMD_REGEX", "CMD_REGEX_DEFAULT", "CMD_ADDRESS_ALL_1CURSOR",
                 "CMD_LOOP", "CMD_WIN"}],
     [name |-> <<"y">>, fn |-> "command_extract",
      flags |-> {"CMD_CMD", "CMD_REGEX", "CMD_ADDRESS_ALL_1CURSOR", "CMD_LOOP", "CMD_WIN"}],
     [name |-> <<"Y">>, fn |-> "command_files",
      flags |-> {"CMD_CMD", "CMD_REGEX", "CMD_ADDRESS_NONE", "CMD_ONCE"}],
     [name |-> <<">">>, fn |-> "command_pipeout", flags |-> {"CMD_SHELL", "CMD_ADDRESS_LINE", "CMD_WIN"}],
     [name |-> <<"<">>, fn |-> "command_pipein", flags |-> {"CMD_SHELL", "CMD_ADDRESS_POS", "CMD_WIN"}],
     [name |-> <<"|">>, fn |-> "command_filter", flags |-> {"CMD_SHELL", "CMD_WIN"}],
     [name |-> <<"q">>, fn |-> "command_quit",
      flags |-> {"CMD_ARGV", "CMD_FORCE", "CMD_ONCE", "CMD_ADDRESS_NONE", "CMD_DESTRUCTIVE"}],
     [name |-> <<"w">>, fn |-> "command_write",
      flags |-> {"CMD_ARGV", "CMD_FORCE", "CMD_ONCE", "CMD_ADDRESS_ALL", "CMD_WIN"}],
     [name |-> <<"w", "q">>, fn |-> "command_wq",
      flags |-> {"CMD_ARGV", "CMD_FORCE", "CMD_ONCE", "CMD_ADDRESS_ALL", "CMD_DESTRUCTIVE",
                 "CMD_WIN"}],
     [name |-> <<"s", "e", "t">>, fn |-> "command_set",
      flags |-> {"CMD_ARGV", "CMD_ONCE", "CMD_ADDRESS_NONE"}],
     [name |-> <<"n", "e", "w">>, fn |-> "command_new",
      flags |-> {"CMD_ARGV", "CMD_ONCE", "CMD_ADDRESS_NONE"}],
     [name |-> <<"e", "a", "r", "l", "i", "e", "r">>, fn |-> "command_earlier_later",
      flags |-> {"CMD_ARGV", "CMD_ONCE", "CMD_ADDRESS_NONE", "CMD_WIN"}]}

\* a NULL CommandDef pointer
NoDefinition == [name |-> <<>>, fn |-> "", flags |-> {}]

IsPrefix(p, s) == Len(p) <= Len(s) /\ SubSeq(s, 1, Len(p)) = p

\* map_closest: the entry with this name, else the only entry the name is a
\* prefix of, else NULL
map_closest(cmds, name) ==
    LET exact  == {d \in cmds : d.name = name}
        closer == {d \in cmds : IsPrefix(name, d.name)}
    IN  IF exact # {} THEN CHOOSE d \in exact : TRUE
        ELSE IF Cardinality(closer) = 1 THEN CHOOSE d \in closer : TRUE
        ELSE NoDefinition

lookup_command_definition(raw, token) ==
    map_closest(command_definition_table, sam_token_to_s8(raw, token))

\* push_struct(&vis->sam.arena, Command): a zeroed Command.  Nothing ever
\* assigns regex or cmd, they stay NULL.
NoCommand ==
    [address |-> NoAddress, definition |-> NoDefinition,
     count |-> [start |-> 0, end |-> 0, mod |-> FALSE], iteration |-> 0,
     args |-> <<>>, u |-> <<>>, force |-> FALSE, regex |-> "NULL", cmd |-> "NULL"]

\* the test of the form n,m whatever the form of the count
count_evaluate_range_only(cmd) ==
    cmd.count.start <= cmd.iteration /\ cmd.iteration <= cmd.count.end

count_evaluate(cmd) ==
    IF cmd.count.mod
    THEN (IF cmd.count.start # 0 THEN cmd.iteration % cmd.count.start = 0 ELSE TRUE)
    ELSE cmd.count.start <= cmd.iteration /\ cmd.iteration <= cmd.count.end

\* count_init
count_init(cmd, max) ==
    [cmd EXCEPT !.iteration = 0,
                !.count.start = IF @ < 0 THEN @ + max ELSE @,
                !.count.end   = IF @ < 0 THEN @ + max ELSE @]

get_range_for_command(c, txt, current_position, multiple_cursors) ==
    IF c.address.left.type # "AT_INVALID" THEN
        text_range_new(current_position, current_position)
    ELSE IF "CMD_ADDRESS_POS" \in c.definition.flags THEN
        text_range_new(current_position, current_position)
    ELSE IF "CMD_ADDRESS_LINE" \in c.definition.flags THEN
        text_object_line(txt, current_position)
    ELSE IF "CMD_ADDRESS_AFTER" \in c.definition.flags THEN
        text_range_new(text_line_next(txt, current_position), text_line_next(txt, current_position))
    ELSE IF "CMD_ADDRESS_ALL" \in c.definition.flags THEN
        text_range_new(0, text_size(txt))
    ELSE IF ~multiple_cursors /\ "CMD_ADDRESS_ALL_1CURSOR" \in c.definition.flags THEN
        text_range_new(0, text_size(txt))
    ELSE text_range_new(current_position, text_char_next(txt, current_position))

\* text(vis, s): the replacement text of a, i and c; & and \1..\9 stand for
\* registers, which are all empty here, \\ and \& for the second byte
RECURSIVE expand_text(_)
expand_text(s) ==
    IF s = <<>> THEN <<>>
    ELSE IF s[1] = "&" THEN expand_text(Tail(s))
    ELSE IF s[1] = "\\" THEN
        IF Len(s) >= 2 /\ s[2] \in {"1", "2", "3", "4", "5", "6", "7", "8", "9"}
        THEN expand_text(SubSeq(s, 3, Len(s)))
        ELSE IF Len(s) >= 2 /\ s[2] \in {"\\", "&"}
        THEN <<s[2]>> \o expand_text(SubSeq(s, 3, Len(s)))
        ELSE <<s[1]>> \o expand_text(Tail(s))
    ELSE <<s[1]>> \o expand_text(Tail(s))

\* command_parse, CMD_FORCE
parse_force(raw, toks, ps) ==
    IF "CMD_FORCE" \in ps.command.definition.flags
    THEN [ps EXCEPT !.command.force = sam_token_check_pop_force_flag(raw, toks, ps.read_index).result,
                    !.read_index = sam_token_check_pop_force_flag(raw, toks, ps.read_index).read_index]
    ELSE ps

\* command_parse, CMD_TEXT
parse_text_string(raw, ps, str) ==
    IF str.token.type # "ST_INVALID"
    THEN [ps EXCEPT !.command.args = <<sam_token_to_s8(raw, str.token)>>,
                    !.read_index = str.read_index]
    ELSE [ps EXCEPT !.result = FALSE, !.read_index = str.read_index]

parse_text_count(raw, toks, ps, n) ==
    parse_text_string(raw, [ps EXCEPT !.command.count.start = n.count, !.trap = n.trap],
                      sam_delimited_string(raw, toks, n.read_index))

parse_text(raw, toks, ps) ==
    IF "CMD_TEXT" \in ps.command.definition.flags
    THEN parse_text_count(raw, toks, ps, check_count(raw, toks, ps.read_index))
    ELSE ps

\* command_parse, CMD_SHELL: the rest of the line from a string token, else
\* the last shell command; neither may be empty
parse_shell_command(raw, toks, ps, p) ==
    IF p.type = "ST_STRING"
    THEN [ps EXCEPT !.command.u = SubSeq(raw, p.start + 1, Len(raw)),
                    !.shell_register = SubSeq(raw, p.start + 1, Len(raw)),
                    !.read_index = sam_token_pop(toks, ps.read_index),
                    !.result = Len(SubSeq(raw, p.start + 1, Len(raw))) > 0]
    ELSE [ps EXCEPT !.command.u = ps.shell_register,
                    !.result = Len(ps.shell_register) > 0]

parse_shell(raw, toks, ps) ==
    IF "CMD_SHELL" \in ps.command.definition.flags /\ ps.result
    THEN parse_shell_command(raw, toks, ps, sam_token_peek(toks, ps.read_index))
    ELSE ps

\* command_parse: whether it succeeded, and the command, the read_index and
\* the shell register it leaves
command_parse(raw, toks, ri, cmd, register) ==
    parse_shell(raw, toks,
        parse_text(raw, toks,
            parse_force(raw, toks,
                [result |-> TRUE, command |-> cmd, read_index |-> ri,
                 shell_register |-> register, trap |-> FALSE])))

(***************************************************************************)
(* set: the options and command_set (vis-cmds.c)                           *)
(***************************************************************************)
\* options[]: the names and the flags of every option
options ==
    {[index |-> "OPTION_SHELL",
      names |-> {<<"s", "h", "e", "l", "l">>},
      flags |-> {"VIS_OPTION_TYPE_STRING"}],
     [index |-> "OPTION_ESCDELAY",
      names |-> {<<"e", "s", "c", "d", "e", "l", "a", "y">>},
      flags |-> {"VIS_OPTION_TYPE_NUMBER"}],
     [index |-> "OPTION_AUTOINDENT",
      names |-> {<<"a", "u", "t", "o", "i", "n", "d", "e", "n", "t">>, <<"a", "i">>},
      flags |-> {"VIS_OPTION_TYPE_BOOL"}],
     [index |-> "OPTION_EXPANDTAB",
      names |-> {<<"e", "x", "p", "a", "n", "d", "t", "a", "b">>, <<"e", "t">>},
      flags |-> {"VIS_OPTION_TYPE_BOOL", "VIS_OPTION_NEED_WINDOW"}],
     [index |-> "OPTION_TABWIDTH",
      names |-> {<<"t", "a", "b", "w", "i", "d", "t", "h">>, <<"t", "w">>},
      flags |-> {"VIS_OPTION_TYPE_NUMBER", "VIS_OPTION_NEED_WINDOW"}],
     [index |-> "OPTION_SHOW_SPACES",
      names |-> {<<"s", "h", "o", "w", "s", "p", "a", "c", "e", "s">>},
      flags |-> {"VIS_OPTION_TYPE_BOOL", "VIS_OPTION_NEED_WINDOW"}],
     [index |-> "OPTION_SHOW_TABS",
      names |-> {<<"s", "h", "o", "w", "t", "a", "b", "s">>},
      flags |-> {"VIS_OPTION_TYPE_BOOL", "VIS_OPTION_NEED_WINDOW"}],
     [index |-> "OPTION_SHOW_NEWLINES",
      names |-> {<<"s", "h", "o", "w", "n", "e", "w", "l", "i", "n", "e", "s">>},
      flags |-> {"VIS_OPTION_TYPE_BOOL", "VIS_OPTION_NEED_WINDOW"}],
     [index |-> "OPTION_SHOW_EOF",
      names |-> {<<"s", "h", "o", "w", "e", "o", "f">>},
      flags |-> {"VIS_OPTION_TYPE_BOOL", "VIS_OPTION_NEED_WINDOW"}],
     [index |-> "OPTION_STATUSBAR",
      names |-> {<<"s", "t", "a", "t", "u", "s", "b", "a", "r">>, <<"s", "b">>},
      flags |-> {"VIS_OPTION_TYPE_BOOL", "VIS_OPTION_NEED_WINDOW"}],
     [index |-> "OPTION_NUMBER",
      names |-> {<<"n", "u", "m", "b", "e", "r", "s">>, <<"n", "u">>},
      flags |-> {"VIS_OPTION_TYPE_BOOL", "VIS_OPTION_NEED_WINDOW"}],
     [index |-> "OPTION_NUMBER_RELATIVE",
      names |-> {<<"r", "e", "l", "a", "t", "i", "v", "e", "n", "u", "m", "b", "e", "r", "s">>, <<"r", "n", "u">>},
      flags |-> {"VIS_OPTION_TYPE_BOOL", "VIS_OPTION_NEED_WINDOW"}],
     [index |-> "OPTION_CURSOR_LINE",
      names |-> {<<"c", "u", "r", "s", "o", "r", "l", "i", "n", "e">>, <<"c", "u", "l">>},
      flags |-> {"VIS_OPTION_TYPE_BOOL", "VIS_OPTION_NEED_WINDOW"}],
     [index |-> "OPTION_COLOR_COLUMN",
      names |-> {<<"c", "o", "l", "o", "r", "c", "o", "l", "u", "m", "n">>, <<"c", "c">>},
      flags |-> {"VIS_OPTION_TYPE_NUMBER", "VIS_OPTION_NEED_WINDOW"}],
     [index |-> "OPTION_SAVE_METHOD",
      names |-> {<<"s", "a", "v", "e", "m", "e", "t", "h", "o", "d">>},
      flags |-> {"VIS_OPTION_TYPE_STRING", "VIS_OPTION_NEED_WINDOW"}],
     [index |-> "OPTION_LOAD_METHOD",
      names |-> {<<"l", "o", "a", "d", "m", "e", "t", "h", "o", "d">>},
      flags |-> {"VIS_OPTION_TYPE_STRING"}],
     [index |-> "OPTION_CHANGE_256COLORS",
      names |-> {<<"c", "h", "a", "n", "g", "e", "2", "5", "6", "c", "o", "l", "o", "r", "s">>},
      flags |-> {"VIS_OPTION_TYPE_BOOL"}],
     [index |-> "OPTION_LAYOUT",
      names |-> {<<"l", "a", "y", "o", "u", "t">>},
      flags |-> {"VIS_OPTION_TYPE_STRING"}],
     [index |-> "OPTION_IGNORECASE",
      names |-> {<<"i", "g", "n", "o", "r", "e", "c", "a", "s", "e">>, <<"i", "c">>},
      flags |-> {"VIS_OPTION_TYPE_BOOL"}],
     [index |-> "OPTION_BREAKAT",
      names |-> {<<"b", "r", "e", "a", "k", "a", "t">>, <<"b", "r", "k">>},
      flags |-> {"VIS_OPTION_TYPE_STRING", "VIS_OPTION_NEED_WINDOW"}],
     [index |-> "OPTION_WRAP_COLUMN",
      names |-> {<<"w", "r", "a", "p", "c", "o", "l", "u", "m", "n">>, <<"w", "c">>},
      flags |-> {"VIS_OPTION_TYPE_NUMBER", "VIS_OPTION_NEED_WINDOW"}]}

\* vis->options after sam_init: an entry for every name of every option
OptionEntries == UNION {{[name |-> n, def |-> o] : n \in o.names} : o \in options}

\* values[]: the bits of win->options an option stands for
ui_option_values(index) ==
    CASE index = "OPTION_SHOW_SPACES"     -> {"UI_OPTION_SYMBOL_SPACE"}
      [] index = "OPTION_SHOW_TABS"       -> {"UI_OPTION_SYMBOL_TAB", "UI_OPTION_SYMBOL_TAB_FILL"}
      [] index = "OPTION_SHOW_NEWLINES"   -> {"UI_OPTION_SYMBOL_EOL"}
      [] index = "OPTION_SHOW_EOF"        -> {"UI_OPTION_SYMBOL_EOF"}
      [] index = "OPTION_STATUSBAR"       -> {"UI_OPTION_STATUSBAR"}
      [] index = "OPTION_NUMBER"          -> {"UI_OPTION_LINE_NUMBERS_ABSOLUTE"}
      [] index = "OPTION_NUMBER_RELATIVE" -> {"UI_OPTION_LINE_NUMBERS_RELATIVE"}
      [] index = "OPTION_CURSOR_LINE"     -> {"UI_OPTION_CURSOR_LINE"}
      [] OTHER -> {}

LowerCase == <<"a", "b", "c", "d", "e", "f", "g", "h", "i", "j", "k", "l", "m",
               "n", "o", "p", "q", "r", "s", "t", "u", "v", "w", "x", "y", "z">>

UpperCase == <<"A", "B", "C", "D", "E", "F", "G", "H", "I", "J", "K", "L", "M",
               "N", "O", "P", "Q", "R", "S", "T", "U", "V", "W", "X", "Y", "Z">>

\* c & ~0x20: a lower case letter becomes the upper case letter; the other
\* bytes of a line keep apart from each other
case_ignore(c) ==
    IF \E i \in 1..26 : LowerCase[i] = c
    THEN UpperCase[CHOOSE i \in 1..26 : LowerCase[i] = c]
    ELSE c

s8_case_ignore_equal(a, b) ==
    Len(a) = Len(b) /\ \A i \in 1..Len(a) : case_ignore(a[i]) = case_ignore(b[i])

true_strs == {<<"1">>, <<"t", "r", "u", "e">>, <<"y", "e", "s">>, <<"o", "n">>}

false_strs == {<<"0">>, <<"f", "a", "l", "s", "e">>, <<"n", "o">>, <<"o", "f", "f">>}

\* parse_bool: whether s is a boolean value, and the value
parse_bool(s) ==
    [result |-> \E t \in true_strs \cup false_strs : s8_case_ignore_equal(t, s),
     outval |-> \E t \in true_strs : s8_case_ignore_equal(t, s)]

(* Numbers of the width of i64: the decimal digits of the magnitude, most  *)
(* significant first and without leading zeros (0 has none), and the sign. *)
I64_MAX == <<9, 2, 2, 3, 3, 7, 2, 0, 3, 6, 8, 5, 4, 7, 7, 5, 8, 0, 7>>

I32_MAX == <<2, 1, 4, 7, 4, 8, 3, 6, 4, 7>>

\* a < b
wide_less(a, b) ==
    \/ Len(a) < Len(b)
    \/ /\ Len(a) = Len(b)
       /\ \E i \in 1..Len(a) : a[i] < b[i] /\ \A j \in 1..(i - 1) : a[j] = b[j]

\* 10 * a + digit
wide_push(a, digit) == IF a = <<>> /\ digit = 0 THEN <<>> ELSE Append(a, digit)

Front(a) == SubSeq(a, 1, Len(a) - 1)

\* a - 1, for a > 0
RECURSIVE wide_pred(_)
wide_pred(a) ==
    IF a[Len(a)] > 0
    THEN IF a = <<1>> THEN <<>> ELSE Append(Front(a), a[Len(a)] - 1)
    ELSE Append(wide_pred(Front(a)), 9)

\* (a - digit) / 10, for a >= 10
wide_less_digit_tenth(a, digit) ==
    IF digit <= a[Len(a)] THEN Front(a) ELSE wide_pred(Front(a))

\* the digit loop of s8_to_i64 that wraps around instead of stopping at the
\* largest value: only the low digits are kept
RECURSIVE wide_digits_wrapping(_, _, _)
wide_digits_wrapping(s, i, result) ==
    IF i <= Len(s) /\ ISDIGIT(s[i])
    THEN wide_digits_wrapping(s, i + 1,
            IF Len(result) >= Len(I32_MAX) - 1 THEN wide_push(<<>>, DigitValue(s[i]))
            ELSE wide_push(result, DigitValue(s[i])))
    ELSE result

\* the digit loop of s8_to_i64 with the width of i64:
\* if (result > (I64_MAX - digit) / 10) result = I64_MAX; else result = 10 * result + digit;
RECURSIVE wide_digits(_, _, _)
wide_digits(s, i, result) ==
    IF i <= Len(s) /\ ISDIGIT(s[i])
    THEN wide_digits(s, i + 1,
            IF wide_less(wide_less_digit_tenth(I64_MAX, DigitValue(s[i])), result)
            THEN I64_MAX
            ELSE wide_push(result, DigitValue(s[i])))
    ELSE result

\* sign * result
wide_signed(negative, magnitude) ==
    [negative |-> negative /\ magnitude # <<>>, magnitude |-> magnitude]

\* s8_to_i64 with the width of i64
s8_to_i64_wide(s) ==
    IF s # <<>> /\ s[1] = "-" THEN wide_signed(TRUE, wide_digits(s, 2, <<>>))
    ELSE IF s # <<>> /\ s[1] = "+" THEN wide_signed(FALSE, wide_digits(s, 2, <<>>))
    ELSE wide_signed(FALSE, wide_digits(s, 1, <<>>))

\* the value of a magnitude that is at most I32_MAX
RECURSIVE wide_int(_)
wide_int(a) == IF a = <<>> THEN 0 ELSE 10 * wide_int(Front(a)) + a[Len(a)]

\* the argument of an option: whether there is one, the value by type, the
\* read_index, and whether an ASSERT trapped
SetArg(ok, b, i, s, ri, trap) ==
    [ok |-> ok, b |-> b, i |-> i, s |-> s, read_index |-> ri, trap |-> trap]

\* if (lval < 0) return false; if (lval > I32_MAX) return false;
set_number_ok(lval) == ~lval.negative /\ ~wide_less(I32_MAX, lval.magnitude)

\* command_set, the number of a Number option
set_number_arg(raw, n) ==
    IF n.token.type = "ST_INVALID" THEN SetArg(FALSE, FALSE, 0, <<>>, n.read_index, n.trap)
    ELSE IF ~set_number_ok(s8_to_i64_wide(sam_token_to_s8(raw, n.token)))
    THEN SetArg(FALSE, FALSE, 0, <<>>, n.read_index, n.trap)
    ELSE SetArg(TRUE, FALSE, wide_int(s8_to_i64_wide(sam_token_to_s8(raw, n.token)).magnitude),
                <<>>, n.read_index, n.trap)

\* command_set, the value of a Bool option: without a value it is !toggle
set_bool_arg(raw, toks, ri, toggle, p) ==
    IF p.type = "ST_INVALID" THEN SetArg(TRUE, ~toggle, 0, <<>>, ri, FALSE)
    ELSE SetArg(parse_bool(sam_token_to_s8(raw, p)).result,
                parse_bool(sam_token_to_s8(raw, p)).outval, 0, <<>>,
                sam_token_pop(toks, ri), FALSE)

\* command_set, the value of a String option (none has VALUE_OPTIONAL)
set_string_arg(raw, toks, ri, p) ==
    IF p.type # "ST_STRING" THEN SetArg(FALSE, FALSE, 0, <<>>, ri, FALSE)
    ELSE SetArg(TRUE, FALSE, 0, sam_token_to_s8(raw, p), sam_token_pop(toks, ri), FALSE)

\* command_set, Arg arg by the type of the option
set_arg(raw, toks, ri, flags, toggle) ==
    IF "VIS_OPTION_TYPE_STRING" \in flags
    THEN set_string_arg(raw, toks, ri, sam_token_peek(toks, ri))
    ELSE IF "VIS_OPTION_TYPE_BOOL" \in flags
    THEN set_bool_arg(raw, toks, ri, toggle, sam_token_peek(toks, ri))
    ELSE IF "VIS_OPTION_TYPE_NUMBER" \in flags
    THEN set_number_arg(raw, sam_token_try_pop_number(raw, toks, ri))
    ELSE SetArg(FALSE, FALSE, 0, <<>>, ri, FALSE)

\* if (arg.b || (toggle && !(flags & v))) flags |= v; else flags &= ~v;
ui_option_set(flags, v, toggle, b) ==
    IF b \/ (toggle /\ flags \cap v = {}) THEN flags \cup v ELSE flags \ v

\* the line numbers: one kind switched on switches the other off
ui_numbers_set(flags, v, toggle, b) ==
    IF b \/ (toggle /\ flags \cap v = {})
    THEN (flags \ {"UI_OPTION_LINE_NUMBERS_ABSOLUTE", "UI_OPTION_LINE_NUMBERS_RELATIVE"}) \cup v
    ELSE flags \ v

\* the values a String option takes; shell and breakat take any
string_option_values(index) ==
    CASE index = "OPTION_SAVE_METHOD" ->
            {<<"a", "u", "t", "o">>, <<"a", "t", "o", "m", "i", "c">>,
             <<"i", "n", "p", "l", "a", "c", "e">>}
      [] index = "OPTION_LOAD_METHOD" ->
            {<<"a", "u", "t", "o">>, <<"r", "e", "a", "d">>, <<"m", "m", "a", "p">>}
      [] index = "OPTION_LAYOUT" -> {<<"h">>, <<"v">>}
      [] OTHER -> {}

\* command_set, the switch over the option: the result and the values of
\* the options it leaves
set_switch(o, index, toggle, arg) ==
    CASE index = "OPTION_SHELL" -> [result |-> TRUE, opt |-> [o EXCEPT !.shell = arg.s]]
      [] index = "OPTION_ESCDELAY" -> [result |-> TRUE, opt |-> [o EXCEPT !.escdelay = arg.i]]
      [] index = "OPTION_EXPANDTAB" ->
            [result |-> TRUE, opt |-> [o EXCEPT !.expandtab = IF toggle THEN ~@ ELSE arg.b]]
      [] index = "OPTION_AUTOINDENT" ->
            [result |-> TRUE, opt |-> [o EXCEPT !.autoindent = IF toggle THEN ~@ ELSE arg.b]]
      [] index = "OPTION_TABWIDTH" -> [result |-> TRUE, opt |-> [o EXCEPT !.tabwidth = arg.i]]
      [] index \in {"OPTION_SHOW_SPACES", "OPTION_SHOW_TABS", "OPTION_SHOW_NEWLINES",
                    "OPTION_SHOW_EOF", "OPTION_STATUSBAR", "OPTION_CURSOR_LINE"} ->
            [result |-> TRUE,
             opt |-> [o EXCEPT !.options = ui_option_set(@, ui_option_values(index), toggle, arg.b)]]
      [] index \in {"OPTION_NUMBER", "OPTION_NUMBER_RELATIVE"} ->
            [result |-> TRUE,
             opt |-> [o EXCEPT !.options = ui_numbers_set(@, ui_option_values(index), toggle, arg.b)]]
      [] index = "OPTION_COLOR_COLUMN" ->
            [result |-> TRUE, opt |-> IF arg.i >= 0 THEN [o EXCEPT !.colorcolumn = arg.i] ELSE o]
      [] index = "OPTION_CHANGE_256COLORS" ->
            [result |-> TRUE, opt |-> [o EXCEPT !.change_colors = IF toggle THEN ~@ ELSE arg.b]]
      [] index = "OPTION_IGNORECASE" ->
            [result |-> TRUE, opt |-> [o EXCEPT !.ignorecase = IF toggle THEN ~@ ELSE arg.b]]
      [] index = "OPTION_WRAP_COLUMN" ->
            [result |-> TRUE, opt |-> IF arg.i >= 0 THEN [o EXCEPT !.wrapcolumn = arg.i] ELSE o]
      [] index = "OPTION_BREAKAT" -> [result |-> TRUE, opt |-> o]
      [] OTHER -> [result |-> arg.s \in string_option_values(index), opt |-> o]

\* command_set once the option is known: the checks of the toggle, the
\* argument, the switch
set_option(o, def, toggle, raw, toks, ri, arg) ==
    IF toggle /\ "VIS_OPTION_TYPE_BOOL" \notin def.flags
    THEN [result |-> FALSE, opt |-> o, read_index |-> ri, trap |-> FALSE]
    ELSE IF toggle /\ sam_token_peek(toks, ri).type # "ST_INVALID"
    THEN [result |-> FALSE, opt |-> o, read_index |-> ri, trap |-> FALSE]
    ELSE IF ~arg.ok \/ arg.trap
    THEN [result |-> FALSE, opt |-> o, read_index |-> arg.read_index, trap |-> arg.trap]
    ELSE [result     |-> set_switch(o, def.index, toggle, arg).result,
          opt        |-> set_switch(o, def.index, toggle, arg).opt,
          read_index |-> arg.read_index, trap |-> FALSE]

\* command_set from the lookup of the name on
set_named(o, entry, toggle, raw, toks, ri, has_win) ==
    IF entry.name = <<>>
    THEN [result |-> FALSE, opt |-> o, read_index |-> ri, trap |-> FALSE]
    ELSE IF ~has_win /\ "VIS_OPTION_NEED_WINDOW" \in entry.def.flags
    THEN [result |-> FALSE, opt |-> o, read_index |-> ri, trap |-> FALSE]
    ELSE set_option(o, entry.def, toggle, raw, toks, ri,
                    set_arg(raw, toks, ri, entry.def.flags, toggle))

\* toggle = check_pop_force_flag(sts); name = pop(sts);
\* toggle = toggle || check_pop_force_flag(sts): the second ! is looked for
\* only when there was no first
set_name(raw, toks, first) ==
    [toggle |-> first.result
                \/ sam_token_check_pop_force_flag(raw, toks,
                       sam_token_pop(toks, first.read_index)).result,
     name |-> sam_token_to_s8(raw, sam_token_peek(toks, first.read_index)),
     read_index |-> IF first.result THEN sam_token_pop(toks, first.read_index)
                    ELSE sam_token_check_pop_force_flag(raw, toks,
                             sam_token_pop(toks, first.read_index)).read_index]

set_parsed(o, n, raw, toks, has_win) ==
    set_named(o, map_closest(OptionEntries, n.name), n.toggle, raw, toks, n.read_index, has_win)

\* command_set(vis, win, command, sts, selection, range)
set_run(o, raw, toks, ri, has_win) ==
    set_parsed(o, set_name(raw, toks, sam_token_check_pop_force_flag(raw, toks, ri)),
               raw, toks, has_win)

(***************************************************************************)
(* sam_cmd: the lines it is called with and the state it is called in      *)
(***************************************************************************)
MaxWords == 2

\* the commands, an address and an opening brace that the lines are made of
Words ==
    {<<"d">>, <<"a", "/", "X", "/">>, <<"i", "/", "Y", "/">>, <<"c", "/", "Z", "/">>,
     <<"|", " ", "t">>, <<"<", " ", "t">>, <<">", " ", "t">>, <<"v">>, <<"x">>, <<"Y">>, <<"q">>,
     <<"n", "e", "w">>, <<"e", "a", "r", "l", "i", "e", "r">>, <<"f", "o", "o">>,
     <<"%">>, <<"{">>, <<"y">>}

\* the lines of exactly n words, separated by one space
RECURSIVE LinesOfWords(_)
LinesOfWords(n) ==
    IF n <= 1 THEN Words
    ELSE {l \o <<" ">> \o w : l \in LinesOfWords(n - 1), w \in Words}

\* lines that change two files: a change of F1 that conflicts or not, a new
\* window, a change of its file
LongLines ==
    {first \o <<" ", "|", " ", "t", " ", "n", "e", "w", " ", "a", "/", "X", "/">> :
        first \in {<<"d">>, <<"%">>, <<"v">>}}

\* lines with balanced braces: a brace takes the byte after it with it, and
\* the lexer traps on a line that ends in a brace
GroupLines ==
    {<<"{", " ", "}">>,
     <<"{", " ", "d", " ", "}", " ">>,
     <<"{", " ", "}", " ", "d">>,
     <<"}", " ", "{", " ", "d">>}

\* the names of command_definition_table
BuiltinNames == {d.name : d \in command_definition_table}

\* a pointer to options[index]
builtin_option(index) == [heap |-> FALSE, index |-> index, id |-> 0]

\* a pointer to the OptionDef that the id-th successful calloc of
\* vis_option_register returned
heap_option(id) == [heap |-> TRUE, index |-> "", id |-> id]

\* sam_init: vis->cmds holds every entry of command_definition_table under
\* its name; vis->usercmds is allocated by the first vis_cmd_register
InitVis ==
    [NoVis EXCEPT !.cmds = [n \in BuiltinNames |->
                               CHOOSE d \in command_definition_table : d.name = n],
                  !.options = [n \in UNION {o.names : o \in options} |->
                                  builtin_option((CHOOSE o \in options : n \in o.names).index)]]

\* the text of the examples: three lines
ExampleText == <<"a", "l", "p", "h", "a", "\n", "b", "e", "t", "a", "\n", "g", "a", "m", "m", "a", "\n">>

\* lines with an address, a pattern or a group, run on ExampleText with one
\* cursor at byte 0
AddressLines ==
    {<<",", "d">>,
     <<",", "2", "d">>,
     <<"1", ",", "1", "d">>,
     <<"1", ",", "2", "d">>,
     <<"1", ",", "3", "d">>,
     <<"2", ",", "2", "d">>,
     <<"2", ",", "3", "d">>,
     <<"3", ",", "3", "d">>,
     <<"1", ",", "2", "q">>,
     <<"1", ",", "2", "p">>,
     <<"p">>,
     <<",", "x", "/", "a", "/", " ", "c", "/", "A", "/">>,
     <<"x", "/", "a", "/", " ", "p">>,
     <<"y", "/", "a", "/", " ", "p">>,
     <<"/", "b", "e", "t", "a", "/", " ", "p">>,
     <<"{", " ", "a", "/", "X", "/", " ", "d", " ", "}">>,
     <<"{", " ", "a", "/", "X", "/", " ", "d", " ", "}", " ">>,
     <<"#", "0", ",", "#", "5", "{", " ", "a", "/", "X", "/", " ", "d", " ", "}", " ">>,
     <<"g", "/", "a", "/", " ", "d">>,
     <<"v", "/", "a", "/", " ", "d">>,
     <<"a", "2", "/", "X", "/", " ", "g">>,
     <<".", "+", "d">>,
     <<".", "+", "1", "d">>,
     <<".", "+", "2", "d">>,
     <<"2", ",", "3", "{", " ", "p", " ", "}", " ">>,
     <<"1", ",", "2", "{", " ", "d", " ", "}", " ">>,
     <<"#", "d">>,
     <<",", "#", "d">>,
     <<"'", "1", "d">>,
     <<"'", "A", "d">>,
     <<",", "/">>,
     <<" ">>}

CommandLines == UNION {LinesOfWords(n) : n \in 1..MaxWords} \cup LongLines \cup GroupLines

\* the views sam_cmd finds: no window at all, or window F1 with one, two or
\* three cursors in normal mode or with two selections in visual mode
Views ==
    {[win |-> NoWin, visual |-> FALSE, sels |-> <<Cursor(0)>>],
     [win |-> "F1", visual |-> FALSE, sels |-> <<Cursor(0)>>],
     [win |-> "F1", visual |-> FALSE, sels |-> <<Cursor(0), Cursor(2)>>],
     [win |-> "F1", visual |-> FALSE, sels |-> <<Cursor(0), Cursor(2), Cursor(3)>>],
     [win |-> "F1", visual |-> TRUE, sels |-> <<Selection(0, 1, TRUE), Selection(2, 3, TRUE)>>]}

Init ==
    /\ pc = "entry"
    /\ tokens = <<>>
    /\ read_index = 0
    /\ transcript = [f \in Files |-> NoTranscript]
    /\ \E v \in Views :
          /\ \/ /\ command_line \in CommandLines
                /\ text = [f \in Files |-> FileText(f)]
             \/ /\ command_line \in AddressLines
                /\ text = [f \in Files |-> IF f = "F1" THEN ExampleText ELSE FileText(f)]
                /\ v = [win |-> "F1", visual |-> FALSE, sels |-> <<Cursor(0)>>]
          /\ win = v.win
          /\ visual = v.visual
          /\ sels = [w \in Wins |-> IF w = "F1" THEN v.sels ELSE <<Cursor(0)>>]
          /\ windows = [w \in Wins |-> IF w = v.win THEN "open" ELSE "unused"]
    /\ sam = NoSam
    /\ shell_register = <<>>
    /\ err = "SAM_ERR_OK"
    /\ editor = InitVis
    /\ hist = [NoHist EXCEPT !.text0 = text]

\* a non-internal file of vis->files: the file of an open window
is_open(f) == f \in Wins /\ windows[f] = "open"

\* the loop of validate_token_stream: the nesting when it stops
RECURSIVE count_nesting(_, _, _)
count_nesting(toks, i, nesting) ==
    IF i > Len(toks) \/ toks[i].type = "ST_INVALID" THEN nesting
    ELSE count_nesting(toks, i + 1,
            CASE toks[i].type = "ST_GROUP_START" -> nesting + 1
              [] toks[i].type = "ST_GROUP_END"   -> nesting - 1
              [] OTHER                           -> nesting)

\* result = nesting == 0 is the last assignment
validate_token_stream(toks) == count_nesting(toks, 1, 0) = 0

\* the Command struct execute_token_stream is working on
command == sam.commands[Len(sam.commands)]

\* sam_cmd from the return of sam_lex to the first iteration of the loop of
\* execute_token_stream: validation, the reset of the transcripts, the
\* address
SamValidate ==
    /\ pc = "lexed"
    /\ IF ~validate_token_stream(tokens) THEN
            /\ pc' = "done"
            /\ UNCHANGED <<tokens, read_index, transcript, sam>>
       ELSE IF Len(tokens) = 0 THEN
            \* ASSERT(sts->count)
            /\ pc' = "trapped"
            /\ transcript' = [f \in Files |-> IF internal(f) THEN transcript[f] ELSE NoTranscript]
            /\ UNCHANGED <<tokens, read_index, sam>>
       ELSE LET a == parse_address(command_line, tokens, read_index)
            IN  /\ pc' = "exec"
                /\ transcript' = [f \in Files |-> IF internal(f) THEN transcript[f] ELSE NoTranscript]
                /\ tokens' = a.tokens
                /\ read_index' = a.read_index
                /\ sam' = [NoSam EXCEPT !.commands = <<[NoCommand EXCEPT !.address = a.address]>>,
                                        !.log = sam.log \o a.log,
                                        !.visual = visual,
                                        !.primary_pos = IF win # NoWin /\ view_selections(sels[win]) # 0
                                                        THEN view_cursors_pos(sels[win][view_selections(sels[win])])
                                                        ELSE EPOS]
    /\ err' = "SAM_ERR_OK"
    /\ UNCHANGED editor
    /\ UNCHANGED <<command_line, text, viewVars, shell_register, hist>>

(***************************************************************************)
(* execute_token_stream                                                    *)
(***************************************************************************)
\* a loop that goes on after should_exit is set
exec_continue_ignoring_exit(s, ri, count) == count # ri

\* while (sts->count != sts->read_index && !vis->sam.should_exit)
exec_continue(s, ri, count) == count # ri /\ ~s.should_exit

\* did_looping_command never set
did_looping_never(did, flags) == did

\* did_looping_command |= (command->definition->flags & CMD_LOOP) != 0
did_looping(did, flags) == did \/ "CMD_LOOP" \in flags

ExecPop(type) ==
    /\ pc = "exec"
    /\ exec_continue(sam, read_index, Len(tokens))
    /\ sam_token_peek(tokens, read_index).type \in type

\* case ST_GROUP_START
ExecGroupStart ==
    /\ ExecPop({"ST_GROUP_START"})
    /\ read_index' = sam_token_pop(tokens, read_index)
    /\ sam' = [sam EXCEPT !.commands = Append(@, NoCommand)]
    /\ UNCHANGED <<pc, command_line, tokens, fileVars, viewVars, shell_register, err, editor, hist>>

\* case ST_GROUP_END: ASSERT(command) traps when there is no enclosing group
ExecGroupEnd ==
    /\ ExecPop({"ST_GROUP_END"})
    /\ read_index' = sam_token_pop(tokens, read_index)
    /\ IF Len(sam.commands) > 1
       THEN /\ sam' = [sam EXCEPT !.nesting_level = @ - 1,
                                  !.commands = SubSeq(@, 1, Len(@) - 1)]
            /\ pc' = pc
       ELSE /\ sam' = [sam EXCEPT !.nesting_level = @ - 1]
            /\ pc' = "trapped"
    /\ UNCHANGED <<command_line, tokens, fileVars, viewVars, shell_register, err, editor, hist>>

\* default: a number or a delimiter where a command is expected
ExecUnexpected ==
    /\ ExecPop({"ST_NUMBER", "ST_DELIMITER", "ST_INVALID"})
    /\ read_index' = sam_token_pop(tokens, read_index)
    /\ sam' = [sam EXCEPT !.should_exit = TRUE]
    /\ hist' = [hist EXCEPT !.failed = TRUE]
    /\ UNCHANGED <<pc, command_line, tokens, fileVars, viewVars, shell_register, err, editor>>

\* commands of the loop class
LoopClass == {<<"x">>, <<"y">>, <<"g">>, <<"v">>, <<"X">>, <<"Y">>}

\* history of a dispatch: execute_command was entered for definition def
Dispatched(h, def, w, parsed) ==
    [h EXCEPT !.dispatches = Append(@, [name |-> def.name, flags |-> def.flags, win |-> w,
                                        parsed |-> parsed, calls |-> 0,
                                        sels |-> IF w = NoWin THEN <<>> ELSE sels[w]])]

\* history of a handler call: the call, and its result once it has returned
Called(h, w, sel, range, returned, result) ==
    [h EXCEPT !.calls = Append(@, [name |-> command.definition.name, fn |-> command.definition.fn,
                                   flags |-> command.definition.flags,
                                   win |-> w, sel |-> sel, range |-> range,
                                   dispatch |-> Len(h.dispatches),
                                   result |-> IF ~returned THEN "none"
                                              ELSE IF result THEN "true" ELSE "false",
                                   looped |-> h.looped,
                                   did_looping_command |-> sam.did_looping_command]),
              !.dispatches[Len(h.dispatches)].calls = @ + 1,
              !.failed = @ \/ (returned /\ ~result),
              !.failed_on = IF returned /\ ~result /\ w # NoWin THEN @ \cup {w} ELSE @,
              !.looped = IF returned /\ command.definition.name \in LoopClass
                         THEN @ \cup {command.definition.name} ELSE @]

\* what execute_token_stream does with the result of execute_command
command_done(s, result) ==
    [s EXCEPT !.should_exit = ~result,
              !.did_looping_command = did_looping(@, command.definition.flags),
              !.win = NoWin, !.sel = 0]

\* execute_command once command_parse has returned p: it failed, or there
\* is no window for a command that needs one, or the loop over the
\* selections starts
ExecParsed(def, p) ==
    IF p.trap THEN
        /\ pc' = "trapped"
        /\ read_index' = p.read_index
        /\ UNCHANGED <<sam, shell_register, hist>>
    ELSE IF ~p.result \/ (win = NoWin /\ "CMD_WIN" \in def.flags) THEN
        /\ pc' = pc
        /\ read_index' = p.read_index
        /\ shell_register' = p.shell_register
        /\ sam' = [sam EXCEPT !.commands[Len(sam.commands)] = p.command,
                              !.should_exit = TRUE,
                              !.did_looping_command = did_looping(@, def.flags)]
        /\ hist' = [Dispatched(hist, def, win, p.result) EXCEPT !.failed = TRUE]
    ELSE
        /\ pc' = "call"
        /\ read_index' = p.read_index
        /\ shell_register' = p.shell_register
        /\ sam' = IF win = NoWin
                  THEN [sam EXCEPT !.commands[Len(sam.commands)] = p.command,
                                   !.win = NoWin, !.sel = 0]
                  ELSE [sam EXCEPT !.commands[Len(sam.commands)] =
                                       IF visual
                                       THEN count_init(p.command, selection_count(sels[win]) + 1)
                                       ELSE p.command,
                                   !.win = win, !.sel = view_selections(sels[win])]
        /\ hist' = Dispatched(hist, def, win, TRUE)

\* case ST_STRING once the definition is looked up: no such command, a
\* destructive command after a looping one, or execute_command
ExecDefined(ri, def) ==
    IF def = NoDefinition THEN
        /\ pc' = pc
        /\ read_index' = ri
        /\ sam' = [sam EXCEPT !.commands[Len(sam.commands)].definition = def,
                              !.should_exit = TRUE]
        /\ hist' = [hist EXCEPT !.failed = TRUE]
        /\ UNCHANGED shell_register
    ELSE IF sam.did_looping_command /\ "CMD_DESTRUCTIVE" \in def.flags THEN
        /\ pc' = pc
        /\ read_index' = ri
        /\ sam' = [sam EXCEPT !.commands[Len(sam.commands)].definition = def,
                              !.should_exit = TRUE,
                              !.did_looping_command = did_looping(@, def.flags)]
        /\ hist' = [hist EXCEPT !.rejected = Append(@, def.name)]
        /\ UNCHANGED shell_register
    ELSE ExecParsed(def, command_parse(command_line, tokens, ri,
                                       [command EXCEPT !.definition = def], shell_register))

\* case ST_STRING once the name is joined
ExecNamed(j) ==
    IF j.hang THEN
        /\ pc' = "hung"
        /\ read_index' = j.read_index
        /\ UNCHANGED <<sam, shell_register, hist>>
    ELSE ExecDefined(j.read_index, lookup_command_definition(command_line, j.token))

\* case ST_STRING, up to the first call of the handler: the name, the
\* definition, the rule on destructive commands, command_parse and the
\* start of the loop over the selections in execute_command
ExecCommand ==
    /\ ExecPop({"ST_STRING"})
    /\ ExecNamed(sam_token_join_command_name(command_line, tokens,
                     sam_token_pop(tokens, read_index), sam_token_peek(tokens, read_index)))
    /\ UNCHANGED <<command_line, tokens, fileVars, viewVars, err, editor>>

\* the range execute_command passes to the handler for the selection sam.sel
selection_range ==
    IF sam.win = NoWin THEN text_range_empty
    ELSE LET s   == sels[sam.win][sam.sel]
             txt == text[sam.win]
             r0  == IF visual THEN view_selections_get(s)
                    ELSE get_range_for_command(command, txt, view_cursors_pos(s),
                                               selection_count(sels[sam.win]) > 1)
             r1  == IF text_range_valid(r0) THEN r0 ELSE Filerange(0, 0)
         IN  IF command.address.left.type # "AT_INVALID"
             THEN evaluate_address(command.address, txt, r1)
             ELSE r1

\* a handler is about to be called
Call(fn) == pc = "call" /\ command.definition.fn = fn

\* a loop over the selections that CMD_ONCE does not stop
loop_more_every_selection(result, flags, next) == result /\ next # 0

\* for (...; s && result; s = next) { ...; if (flags & CMD_ONCE) break; }
loop_more(result, flags, next) == result /\ "CMD_ONCE" \notin flags /\ next # 0

\* the handler returns result and leaves t, ss, w, ws and ri; the loop over
\* the selections goes on or execute_command returns
ReturnWith(h, result, t, ss, w, ws, ri, e) ==
    LET next == IF sam.win = NoWin THEN 0 ELSE view_selections_next(sels[sam.win], sam.sel)
        more == loop_more(result, command.definition.flags, next)
    IN  /\ transcript' = t
        /\ sels' = ss
        /\ win' = w
        /\ windows' = ws
        /\ read_index' = ri
        /\ pc' = IF more THEN "call" ELSE "exec"
        /\ sam' = IF more THEN [sam EXCEPT !.sel = next] ELSE command_done(sam, result)
        /\ hist' = Called(h, sam.win, sam.sel, selection_range, TRUE, result)
        /\ editor' = e
        /\ UNCHANGED <<command_line, tokens, text, visual, shell_register, err>>

ReturnOf(h, result, t, ss, w, ws, ri) == ReturnWith(h, result, t, ss, w, ws, ri, editor)

Return(result, t, ss, w, ws, ri) == ReturnOf(hist, result, t, ss, w, ws, ri)

\* the handler does not return: an ASSERT traps or the process is killed
Trap ==
    /\ pc' = "trapped"
    /\ hist' = Called(hist, sam.win, sam.sel, selection_range, FALSE, FALSE)
    /\ UNCHANGED <<command_line, tokens, read_index, fileVars, viewVars, engineVars>>

\* a read through a NULL Command pointer: the process is killed, or the read
\* yields some value and the handler returns one result or the other
NullCommandRead ==
    \/ Trap
    \/ \E result \in BOOLEAN : Return(result, transcript, sels, win, windows, read_index)

(***************************************************************************)
(* Handlers                                                                *)
(***************************************************************************)
\* the transcripts after a call of sam_insert, sam_delete or sam_change on
\* the file of window w returned r
enqueued(w, r) == [transcript EXCEPT ![w] = r.t]

command_insert ==
    /\ Call("command_insert")
    /\ IF command.args = <<>> \/ sam.win = NoWin THEN Trap
       ELSE LET r == sam_insert(transcript[sam.win], sam.win, sam.sel, selection_range.start,
                                expand_text(command.args[1]), command.count.start)
            IN  Return(r.result # 0, enqueued(sam.win, r), sels, win, windows, read_index)

command_append ==
    /\ Call("command_append")
    /\ IF command.args = <<>> \/ sam.win = NoWin THEN Trap
       ELSE LET r == sam_insert(transcript[sam.win], sam.win, sam.sel, selection_range.end,
                                expand_text(command.args[1]), command.count.start)
            IN  Return(r.result # 0, enqueued(sam.win, r), sels, win, windows, read_index)

command_change ==
    /\ Call("command_change")
    /\ IF command.args = <<>> \/ sam.win = NoWin THEN Trap
       ELSE LET r == sam_change(transcript[sam.win], sam.win, sam.sel, selection_range,
                                expand_text(command.args[1]), command.count.start)
            IN  Return(r.result # 0, enqueued(sam.win, r), sels, win, windows, read_index)

command_delete ==
    /\ Call("command_delete")
    /\ IF sam.win = NoWin THEN Trap
       ELSE LET r == sam_delete(transcript[sam.win], sam.win, sam.sel, selection_range)
            IN  Return(r.result # 0, enqueued(sam.win, r), sels, win, windows, read_index)

\* a Regex* other than NULL stands for the one byte it was compiled from
regex_literal(regex) == <<regex>>

\* match: true without a regex, else whether the regex is found in range
guard_match(cmd, txt, range) ==
    IF cmd.regex = "NULL" THEN TRUE
    ELSE \E p \in range.start..(range.start + text_range_size(range) - Len(regex_literal(cmd.regex))) :
            MatchesAt(txt, p, regex_literal(cmd.regex)) /\ p < range.end

\* (count_evaluate(command) && match) ^ (command->definition->name.data[0] == 'v')
guard_recurses(cmd, match) ==
    (count_evaluate(cmd) /\ match) # (cmd.definition.name[1] = "v")

\* command->regex is NULL, so match is true; sam_execute is called with
\* command->cmd, which is NULL
command_guard ==
    /\ Call("command_guard")
    /\ IF sam.win = NoWin THEN Trap
       ELSE IF guard_recurses(command, guard_match(command, text[sam.win], selection_range))
       THEN NullCommandRead
       ELSE Return(TRUE, transcript,
                   [sels EXCEPT ![sam.win] = view_selections_dispose_force(@, sam.sel)],
                   win, windows, read_index)

\* count_negative(command->cmd) reads through command->cmd, which is NULL
command_extract ==
    /\ Call("command_extract")
    /\ IF sam.win = NoWin THEN Trap
       ELSE IF text_range_valid(selection_range) THEN NullCommandRead
       ELSE Return(FALSE, transcript, sels, win, windows, read_index)

\* command->regex is NULL, so every window matches; sam_execute is called
\* with command->cmd, which is NULL, for the windows X selects
command_files ==
    /\ Call("command_files")
    /\ IF (\E w \in Wins : is_open(w)) /\ command.definition.name[1] # "Y"
       THEN NullCommandRead
       ELSE Return(TRUE, transcript, sels, win, windows, read_index)

\* what vis_pipe can do: the status of the child, its output, an interrupt
PipeOutcomes ==
    {[interrupted |-> FALSE, status |-> 0, bufout |-> <<"P">>],
     [interrupted |-> FALSE, status |-> 1, bufout |-> <<>>],
     [interrupted |-> TRUE,  status |-> 0, bufout |-> <<"P">>],
     [interrupted |-> TRUE,  status |-> 1, bufout |-> <<>>]}

\* history of vis_pipe: the call that is about to return found
\* vis->interrupted set when vis_pipe returned
Piped(o) ==
    IF o.interrupted THEN [hist EXCEPT !.interrupted = @ \cup {Len(hist.calls) + 1}] ELSE hist

\* a filter that looks at the exit status only
filter_by_status(o, t, range) ==
    [result |-> o.status = 0,
     t      |-> IF o.status = 0
                THEN sam_change(t, sam.win, sam.sel, range, o.bufout, 1).t
                ELSE t]

\* command_filter on range with the outcome o of vis_pipe: the result of
\* sam_change is not part of the value returned
filter(o, t, range) ==
    [result |-> ~o.interrupted /\ o.status = 0,
     t      |-> IF ~o.interrupted /\ o.status = 0
                THEN sam_change(t, sam.win, sam.sel, range, o.bufout, 1).t
                ELSE t]

command_filter ==
    /\ Call("command_filter")
    /\ IF sam.win = NoWin THEN Trap
       ELSE \E o \in PipeOutcomes :
               LET r == filter(o, transcript[sam.win], selection_range)
               IN  ReturnOf(Piped(o), r.result, enqueued(sam.win, r), sels, win, windows, read_index)

command_pipein ==
    /\ Call("command_pipein")
    /\ IF sam.win = NoWin THEN Trap
       ELSE \E o \in PipeOutcomes :
               LET range == selection_range
                   r == filter(o, transcript[sam.win], Filerange(range.end, range.end))
                   d == sam_delete(r.t, sam.win, 0, range)
               IN  IF r.result
                   THEN ReturnOf(Piped(o), d.result # 0, enqueued(sam.win, d), sels, win, windows, read_index)
                   ELSE ReturnOf(Piped(o), FALSE, enqueued(sam.win, r), sels, win, windows, read_index)

\* vis_pipe without a buffer for the output: nothing is enqueued
pipeout(o) == ~o.interrupted /\ o.status = 0

command_pipeout ==
    /\ Call("command_pipeout")
    /\ IF sam.win = NoWin THEN Trap
       ELSE \E o \in PipeOutcomes :
               ReturnOf(Piped(o), pipeout(o), transcript, sels, win, windows, read_index)

\* set: the option is looked up and set in the options of vis and of the
\* window
command_set ==
    /\ Call("command_set")
    /\ LET r == set_run(editor.opt, command_line, tokens, read_index, sam.win # NoWin)
       IN  IF r.trap THEN Trap
           ELSE ReturnWith(hist, r.result, transcript, sels, win, windows, r.read_index,
                           [editor EXCEPT !.opt = r.opt])

\* the window that has the focus once window w is closed
focus_after_close(w) ==
    IF \E o \in Wins : o # w /\ is_open(o)
    THEN CHOOSE o \in Wins : o # w /\ is_open(o)
    ELSE NoWin

\* command_quit: whether the window may be closed depends on the state of
\* its file; vis_exit only asks the main loop to stop
\* sts is the stream of the line, or the empty stream that command_wq
\* passes, which leaves the read_index of the line at ri
quit(h, sts, ri, e) ==
    \E closable \in BOOLEAN :
          IF command.force \/ closable
          THEN LET ws == IF sam.win = NoWin THEN windows ELSE [windows EXCEPT ![sam.win] = "closed"]
                   none_left == \A w \in Wins : ws[w] # "open"
                   n == sam_token_try_pop_number(command_line, sts, IF sts = <<>> THEN 0 ELSE ri)
               IN  IF none_left /\ n.trap THEN Trap
                   ELSE ReturnWith(h, TRUE, transcript, sels,
                                   IF sam.win = NoWin THEN win
                                   ELSE IF win = sam.win THEN focus_after_close(sam.win) ELSE win,
                                   ws,
                                   IF none_left /\ sts # <<>> THEN n.read_index ELSE ri,
                                   e)
          ELSE ReturnWith(h, FALSE, transcript, sels, win, windows, ri, e)

command_quit ==
    /\ Call("command_quit")
    /\ quit(hist, tokens, read_index, editor)

\* sam_tokens_join_until_space: the read_index once the tokens that touch
\* each other are popped; end is result.start + result.length
RECURSIVE join_until_space(_, _, _)
join_until_space(toks, ri, end) ==
    IF sam_token_peek(toks, ri).type # "ST_INVALID" /\ end = sam_token_peek(toks, ri).start
    THEN join_until_space(toks, sam_token_pop(toks, ri),
                          sam_token_peek(toks, ri).start + sam_token_peek(toks, ri).length)
    ELSE ri

sam_tokens_join_until_space(toks, ri) ==
    join_until_space(toks, ri, sam_token_peek(toks, ri).start)

\* what command_write meets outside the editor: absolute_path gives a path,
\* stat finds no file, the file of the window, that file with a newer
\* mtime, or another file, the pre-save hook agrees, writing succeeds
WriteOutcomes ==
    {[path |-> TRUE,  stat |-> "none",  pre |-> TRUE,  io |-> TRUE],
     [path |-> TRUE,  stat |-> "same",  pre |-> TRUE,  io |-> TRUE],
     [path |-> TRUE,  stat |-> "newer", pre |-> TRUE,  io |-> TRUE],
     [path |-> TRUE,  stat |-> "other", pre |-> TRUE,  io |-> TRUE],
     [path |-> TRUE,  stat |-> "same",  pre |-> FALSE, io |-> TRUE],
     [path |-> TRUE,  stat |-> "same",  pre |-> TRUE,  io |-> FALSE],
     [path |-> FALSE, stat |-> "none",  pre |-> TRUE,  io |-> TRUE]}

\* what command_write leaves: its result, whether a write was started
\* (text_write_range, text_save_begin), the file
WriteResult(result, written, file) == [result |-> result, written |-> written, file |-> file]

\* command_write without a file name: the text goes to file->fd
write_stdout(force, file, is_wq, o) ==
    IF file.fd = -1 THEN WriteResult(FALSE, FALSE, file)
    ELSE IF ~is_wq THEN WriteResult(FALSE, FALSE, file)
    ELSE IF ~o.pre /\ ~force THEN WriteResult(FALSE, FALSE, file)
    ELSE IF ~o.io THEN WriteResult(FALSE, TRUE, file)
    ELSE WriteResult(TRUE, TRUE, [file EXCEPT !.modified = FALSE])

\* command_write with a file name, its own or the argument
write_path(force, file, has_arg, vmode, whole, o) ==
    IF ~has_arg /\ ~force /\ (vmode \/ ~whole) THEN WriteResult(FALSE, FALSE, file)
    ELSE IF ~o.path THEN WriteResult(FALSE, FALSE, file)
    ELSE IF ~force /\ o.stat = "newer" /\ file.named THEN WriteResult(FALSE, FALSE, file)
    ELSE IF ~force /\ (o.stat = "other" \/ (o.stat # "none" /\ ~file.named))
    THEN WriteResult(FALSE, FALSE, file)
    ELSE IF ~o.pre /\ ~force THEN WriteResult(FALSE, FALSE, file)
    ELSE IF ~o.io THEN WriteResult(FALSE, TRUE, file)
    ELSE WriteResult(TRUE, TRUE, [file EXCEPT !.named = TRUE, !.modified = FALSE])

\* command_write after its first test
write_file(force, file, has_arg, is_wq, vmode, whole, o) ==
    IF ~has_arg /\ ~file.named THEN write_stdout(force, file, is_wq, o)
    ELSE write_path(force, file, has_arg, vmode, whole, o)

\* a write that no change of the same line stops
write_unblocked(t) == FALSE

\* if (sam_transcript_error(&file->transcript, SAM_ERR_WRITE_CONFLICT)) return false;
write_blocked(t) == sam_transcript_error(t, "SAM_ERR_WRITE_CONFLICT").error # "SAM_ERR_OK"

\* command_write on the file of the window of the call: the result, the
\* transcript, the file, the read_index, whether a write was started
write(o, is_wq) ==
    LET t       == transcript[sam.win]
        file    == editor.files[sam.win]
        has_arg == sam_token_peek(tokens, read_index).type # "ST_INVALID"
        w       == write_file(command.force, file, has_arg, is_wq, visual,
                              selection_range = text_range_new(0, text_size(text[sam.win])), o)
    IN  IF write_blocked(t)
        THEN [result |-> FALSE, t |-> sam_transcript_error(t, "SAM_ERR_WRITE_CONFLICT"),
              file |-> file, read_index |-> read_index, written |-> FALSE]
        ELSE [result |-> w.result, t |-> sam_transcript_error(t, "SAM_ERR_WRITE_CONFLICT"),
              file |-> w.file,
              read_index |-> IF has_arg THEN sam_tokens_join_until_space(tokens, read_index)
                             ELSE read_index,
              written |-> w.written]

\* history of a write: the call that is about to return started a write
Wrote(w) == IF w.written THEN [hist EXCEPT !.written = @ \cup {Len(hist.calls) + 1}] ELSE hist

command_write ==
    /\ Call("command_write")
    /\ IF sam.win = NoWin THEN Trap
       ELSE \E o \in WriteOutcomes :
               LET w == write(o, FALSE)
               IN  ReturnWith(Wrote(w), w.result, enqueued(sam.win, w), sels, win, windows,
                              w.read_index, [editor EXCEPT !.files[sam.win] = w.file])

\* file->fd == -1 && !file->name && !text_modified(file->text)
wq_unmodified(file) == file.fd = -1 /\ ~file.named /\ ~file.modified

\* command_wq: command_quit is called with an empty token stream
command_wq ==
    /\ Call("command_wq")
    /\ IF sam.win = NoWin THEN Trap
       ELSE IF wq_unmodified(editor.files[sam.win])
       THEN quit(hist, <<>>, read_index, editor)
       ELSE \E o \in WriteOutcomes :
               LET w == write(o, TRUE)
               IN  IF w.result
                   THEN quit(Wrote(w), <<>>, w.read_index,
                             [editor EXCEPT !.files[sam.win] = w.file])
                   ELSE ReturnWith(Wrote(w), FALSE, enqueued(sam.win, w), sels, win, windows,
                                   w.read_index, [editor EXCEPT !.files[sam.win] = w.file])

\* command_new: vis_window_new(vis, NULL) gives the focus to a new window on
\* a new, empty file, or fails; one new window can be opened
command_new ==
    /\ Call("command_new")
    /\ \E ok \in {TRUE, FALSE} :
          IF ok /\ windows["F2"] = "unused"
          THEN Return(TRUE, transcript, sels, "F2", [windows EXCEPT !["F2"] = "open"], read_index)
          ELSE Return(FALSE, transcript, sels, win, windows, read_index)

\* command_print: the selection covers the range, or is a cursor at its start
command_print ==
    /\ Call("command_print")
    /\ IF sam.win = NoWin THEN Trap
       ELSE IF text_range_valid(selection_range)
       THEN Return(TRUE, transcript,
                   [sels EXCEPT ![sam.win][sam.sel] =
                       IF selection_range.start # selection_range.end
                       THEN [view_selections_set(@, selection_range) EXCEPT !.anchored = TRUE]
                       ELSE view_selection_clear(view_cursors_to(@, selection_range.start))],
                   win, windows, read_index)
       ELSE Return(FALSE, transcript, sels, win, windows, read_index)

\* command_earlier_later: the body is compiled out
command_earlier_later ==
    /\ Call("command_earlier_later")
    /\ IF sam.win = NoWin THEN Trap
       ELSE Return(FALSE, transcript, sels, win, windows, read_index)

(***************************************************************************)
(* The end of execute_token_stream and the apply phase of sam_cmd          *)
(***************************************************************************)
\* the loop of execute_token_stream is over: ASSERT(nesting_level == 0)
ExecReturn ==
    /\ pc = "exec"
    /\ ~exec_continue(sam, read_index, Len(tokens))
    /\ pc' = IF sam.nesting_level = 0 THEN "apply" ELSE "trapped"
    /\ UNCHANGED <<command_line, tokens, read_index, fileVars, viewVars, engineVars, hist>>

\* an error of an earlier file, kept whatever the transcript says
apply_error_kept(error, t) == error

\* if (t->error != SAM_ERR_OK) err = t->error;
apply_error(error, t) == IF t.error # "SAM_ERR_OK" THEN t.error ELSE error

\* the loop over vis->files: st is (text, sels, err)
RECURSIVE apply_files(_, _)
apply_files(files, st) ==
    IF files = <<>> THEN st
    ELSE LET f == Head(files)
             r == apply_file(f, st.text[f], transcript[f], st.sels, sam.visual)
         IN  IF internal(f) \/ ~is_open(f) THEN apply_files(Tail(files), st)
             ELSE apply_files(Tail(files),
                              [text |-> [st.text EXCEPT ![f] = r.txt],
                               sels |-> r.sels,
                               err  |-> apply_error(st.err, transcript[f])])

\* a change that is applied refers to a selection that was freed
DanglingSelection ==
    \E f \in Files :
        /\ ~internal(f) /\ is_open(f) /\ transcript[f].error = "SAM_ERR_OK"
        /\ \E i \in 1..Len(transcript[f].changes) :
              LET c == transcript[f].changes[i]
              IN  c.sel # 0 /\ sels[c.win][c.sel].disposed

text_range_overlap(r1, r2) ==
    /\ text_range_valid(r1) /\ text_range_valid(r2)
    /\ r1.start < r2.end /\ r2.start < r1.end

\* view_selections_normalize: the selections that are left, a selection
\* that overlaps the one before it merged into that one
RECURSIVE normalize(_, _)
normalize(done, ss) ==
    IF ss = <<>> THEN done
    ELSE IF Head(ss).disposed THEN normalize(done, Tail(ss))
    ELSE IF done # <<>> /\ text_range_overlap(view_selections_get(done[Len(done)]),
                                               view_selections_get(Head(ss)))
    THEN LET u == text_range_union(view_selections_get(done[Len(done)]), view_selections_get(Head(ss)))
         IN  normalize([done EXCEPT ![Len(done)] = view_selections_set(@, u)], Tail(ss))
    ELSE normalize(Append(done, Head(ss)), Tail(ss))

view_selections_normalize(ss) == normalize(<<>>, ss)

\* if (primary_pos != EPOS && view_selection_disposed(view))
\*     view_cursors_to(view->selection, primary_pos);
restore_primary(ss, primary_pos) ==
    IF \E i \in 1..Len(ss) : ss[i].dead
    THEN LET i == CHOOSE j \in 1..Len(ss) : ss[j].dead
         IN  IF primary_pos # EPOS
             THEN [ss EXCEPT ![i] = [view_cursors_to(@, primary_pos) EXCEPT !.dead = FALSE]]
             ELSE ss
    ELSE ss

\* sam_cmd after execute_token_stream: the changes of every file are
\* applied, the selections normalized, the mode switched
SamApply ==
    /\ pc = "apply"
    /\ \/ /\ DanglingSelection
          /\ pc' = "trapped"
          /\ UNCHANGED <<text, sels, visual, err, editor, hist>>
       \/ LET r  == apply_files(FileOrder, [text |-> text, sels |-> sels, err |-> err])
              ns == [w \in Wins |-> view_selections_normalize(r.sels[w])]
              fs == IF win # NoWin THEN [ns EXCEPT ![win] = restore_primary(@, sam.primary_pos)]
                    ELSE ns
          IN  /\ pc' = "done"
              /\ text' = r.text
              /\ err' = r.err
              /\ UNCHANGED editor
              /\ sels' = fs
              /\ hist' = [hist EXCEPT !.loop_sels = r.sels]
              /\ visual' = IF win # NoWin
                           THEN \E i \in 1..Len(fs[win]) : fs[win][i].anchored
                           ELSE visual
    /\ UNCHANGED <<command_line, tokens, read_index, transcript, win, windows, sam,
                   shell_register>>

Next ==
    \/ SamLex
    \/ SamValidate
    \/ ExecGroupStart
    \/ ExecGroupEnd
    \/ ExecUnexpected
    \/ ExecCommand
    \/ command_insert
    \/ command_append
    \/ command_change
    \/ command_delete
    \/ command_guard
    \/ command_extract
    \/ command_files
    \/ command_filter
    \/ command_pipein
    \/ command_pipeout
    \/ command_quit
    \/ command_new
    \/ command_print
    \/ command_earlier_later
    \/ ExecReturn
    \/ SamApply

Spec == Init /\ [][Next]_vars

(***************************************************************************)
(* C2                                                                      *)
(***************************************************************************)
\* C2 as claimed: the change list is strictly ordered by range.start and its
\* entries are pairwise non-overlapping.
TranscriptStrictlyOrdered ==
    \A f \in Files :
        LET cs == transcript[f].changes
        IN  \A i \in 1..Len(cs), j \in 1..Len(cs) :
                i < j => /\ cs[i].range.start < cs[j].range.start
                         /\ ~Overlaps(cs[i].range, cs[j].range)

\* C2 as amended: the change list is ordered by range.start, entries may
\* share a start (an empty range at the start of another range, or several
\* empty ranges at one position); every entry ends where the next one starts
\* or before it, so the entries are pairwise non-overlapping.
TranscriptOrdered ==
    \A f \in Files :
        LET cs == transcript[f].changes
        IN  \A i \in 1..Len(cs), j \in 1..Len(cs) :
                i < j => /\ text_range_valid(cs[i].range) /\ text_range_valid(cs[j].range)
                         /\ cs[i].range.start <= cs[j].range.start
                         /\ cs[i].range.end <= cs[j].range.start
                         /\ ~Overlaps(cs[i].range, cs[j].range)

\* three changes are enqueued, one of them in front of an earlier one, and
\* two of them start at the same position
TranscriptOrderedWitness ==
    LET cs == transcript["F1"].changes
    IN  /\ Len(cs) = 3
        /\ transcript["F1"].latest = 1
        /\ cs[2].range.start = cs[3].range.start
        /\ cs[3].range.end > cs[3].range.start

(***************************************************************************)
(* C3                                                                      *)
(***************************************************************************)
RECURSIVE enqueue_all(_, _)
enqueue_all(t, reqs) ==
    IF reqs = <<>> THEN t
    ELSE enqueue_all(sam_request(t, "F1", 1, Head(reqs)).t, Tail(reqs))

\* the text of F1 after enqueuing reqs in this order on an empty transcript
\* and applying it to txt
FinalText(txt, reqs) ==
    apply_file("F1", txt, enqueue_all(NoTranscript, reqs), sels, FALSE).txt

Reorderings(reqs) ==
    {[i \in 1..Len(reqs) |-> reqs[p[i]]] : p \in Permutations(1..Len(reqs))}

PairwiseNonOverlapping(reqs) ==
    \A i \in 1..Len(reqs), j \in 1..Len(reqs) :
        i # j => ~Overlaps(reqs[i].range, reqs[j].range)

\* two requests that insert text have the same empty range
SharedInsertPosition(reqs) ==
    \E i \in 1..Len(reqs), j \in 1..Len(reqs) :
        /\ i # j
        /\ reqs[i].fn # "sam_delete" /\ reqs[j].fn # "sam_delete"
        /\ text_range_valid(reqs[i].range)
        /\ reqs[i].range.start = reqs[i].range.end
        /\ reqs[i].range = reqs[j].range

\* C3 as claimed: pairwise non-overlapping changes, several inserts at one
\* position included, give the same final text in every order of enqueuing.
OrderInvariance ==
    (pc = "done" /\ PairwiseNonOverlapping(hist.enq)) =>
        \A p \in Reorderings(hist.enq) : FinalText(hist.text0["F1"], p) = text["F1"]

\* C3 as amended: pairwise non-overlapping changes of which no two insert
\* text at the same empty range give the same final text in every order of
\* enqueuing (inserts at one position are applied in the order enqueued).
OrderInvarianceDistinctInserts ==
    (pc = "done" /\ PairwiseNonOverlapping(hist.enq) /\ ~SharedInsertPosition(hist.enq)) =>
        \A p \in Reorderings(hist.enq) : FinalText(hist.text0["F1"], p) = text["F1"]

\* three non-overlapping changes, an insert touching a delete's boundary
\* among them, were enqueued out of position order and applied
OrderInvarianceWitness ==
    /\ pc = "done"
    /\ Len(hist.enq) = 3
    /\ PairwiseNonOverlapping(hist.enq) /\ ~SharedInsertPosition(hist.enq)
    /\ hist.enq[1].fn = "sam_delete" /\ hist.enq[1].range = Filerange(1, 2)
    /\ hist.enq[2].fn = "sam_insert" /\ hist.enq[2].range = Filerange(1, 1)
    /\ hist.enq[3].fn = "sam_insert" /\ hist.enq[3].range = Filerange(0, 0)
    /\ text["F1"] # hist.text0["F1"]

(***************************************************************************)
(* C1                                                                      *)
(***************************************************************************)
\* C1: whenever an enqueued change overlapped a change already in the file's
\* transcript, the transcript's error became Conflict, and once the apply
\* phase is over the text of that file is what it was on entry.
ConflictLeavesText ==
    \A o \in hist.overlap :
        /\ o[2] = "SAM_ERR_CONFLICT"
        /\ transcript[o[1]].error # "SAM_ERR_OK"
        /\ pc = "done" => text[o[1]] = hist.text0[o[1]]

\* a delete and an insert were enqueued, a third change overlapped one of
\* them, and the apply phase is over
ConflictLeavesTextWitness ==
    /\ pc = "done"
    /\ Len(hist.enq) = 3
    /\ Len(transcript["F1"].changes) = 2
    /\ hist.enq[1].fn = "sam_delete" /\ hist.enq[2].fn = "sam_insert"
    /\ PairwiseNonOverlapping(<<hist.enq[1], hist.enq[2]>>)
    /\ <<"F1", "SAM_ERR_CONFLICT">> \in hist.overlap

(***************************************************************************)
(* C10                                                                     *)
(***************************************************************************)
RECURSIVE ConcatTokens(_, _)
ConcatTokens(raw, toks) ==
    IF toks = <<>> THEN <<>>
    ELSE sam_token_to_s8(raw, Head(toks)) \o ConcatTokens(raw, Tail(toks))

IsNotSpace(c) == ~ISSPACE(c)

\* C10: the token slices, concatenated in order, are the line with only its
\* whitespace removed (no byte is lost, none is added).
LexRoundTrip ==
    pc \in {"lexed", "trapped"} =>
        ConcatTokens(command_line, tokens) = SelectSeq(command_line, IsNotSpace)

(***************************************************************************)
(* C4  should_exit ends the line                                           *)
(***************************************************************************)
\* C4: within one sam_cmd, once a handler has returned failure, a command
\* name has failed lookup or a token that is neither a brace nor a string
\* has been popped at command position, should_exit is set, and from then
\* on no handler is invoked and execute_command is not entered again.
FailureStopsLine ==
    /\ [](hist.failed => sam.should_exit)
    /\ [][hist.failed => hist'.calls = hist.calls /\ hist'.dispatches = hist.dispatches]_vars

\* a handler was called and the line failed with tokens still unread
FailureStopsLineWitness ==
    /\ pc = "done"
    /\ hist.failed
    /\ hist.calls # <<>>
    /\ read_index < Len(tokens)

(***************************************************************************)
(* C5  a failed handler and the transcript of its file                     *)
(***************************************************************************)
\* C5: if a handler fails during a command line, the file it was operating
\* on has the same text after sam_cmd as before: what earlier commands of
\* the line enqueued on it is not applied.
HandlerFailureDiscardsTranscript ==
    pc = "done" => \A f \in hist.failed_on : text[f] = hist.text0[f]

(***************************************************************************)
(* C6  the apply phase skips the files with an error, and only those       *)
(***************************************************************************)
\* the changes of a transcript applied to txt from the last to the first,
\* each at the position it was enqueued with
RECURSIVE changes_applied(_, _)
changes_applied(txt, changes) ==
    IF changes = <<>> THEN txt
    ELSE LET c   == changes[Len(changes)]
             del == IF IsDelete(c.type)
                    THEN SubSeq(txt, 1, c.range.start) \o SubSeq(txt, c.range.end + 1, Len(txt))
                    ELSE txt
             ins == IF IsInsert(c.type)
                    THEN SubSeq(del, 1, c.range.start) \o Repeat(c.data, c.count)
                         \o SubSeq(del, c.range.start + 1, Len(del))
                    ELSE del
         IN  changes_applied(ins, SubSeq(changes, 1, Len(changes) - 1))

\* C6: after the apply phase a non-internal file whose transcript carries
\* an error has the text it had, every other non-internal file has all of
\* its enqueued changes applied, and sam_cmd returns the error of a file it
\* skipped.
ErrorSkipsOnlyItsFile ==
    pc = "done" =>
        /\ \A f \in Wins :
              is_open(f) =>
                  text[f] = IF transcript[f].error # "SAM_ERR_OK" THEN hist.text0[f]
                            ELSE changes_applied(hist.text0[f], transcript[f].changes)
        /\ (\E f \in Wins : is_open(f) /\ transcript[f].error # "SAM_ERR_OK")
              => \E f \in Wins : /\ is_open(f)
                                 /\ transcript[f].error # "SAM_ERR_OK"
                                 /\ err = transcript[f].error

\* the transcript of F1 has a conflict, and the changes of F2 were applied
ErrorSkipsOnlyItsFileWitness ==
    /\ pc = "done"
    /\ is_open("F1") /\ is_open("F2")
    /\ transcript["F1"].error = "SAM_ERR_CONFLICT"
    /\ transcript["F1"].changes # <<>>
    /\ transcript["F2"].error = "SAM_ERR_OK"
    /\ transcript["F2"].changes # <<>>
    /\ text["F2"] # hist.text0["F2"]
    /\ err = "SAM_ERR_CONFLICT"

(***************************************************************************)
(* C7  handlers enqueue, the apply loop writes                             *)
(***************************************************************************)
TextHandlers ==
    {"command_insert", "command_append", "command_change", "command_delete",
     "command_filter", "command_pipein"}

\* new is old with entries added
RECURSIVE Embeds(_, _)
Embeds(old, new) ==
    IF old = <<>> THEN TRUE
    ELSE IF new = <<>> THEN FALSE
    ELSE IF Head(old) = Head(new) THEN Embeds(Tail(old), Tail(new))
    ELSE Embeds(old, Tail(new))

\* C7: until execute_token_stream has returned no step changes the text of
\* a file, and a call of a, i, c, d, < or | leaves every transcript with
\* the entries it had, in their order, and possibly more; the text changes
\* only in the apply loop.
HandlersOnlyEnqueue ==
    [][/\ pc # "apply" => text' = text
       /\ (pc = "call" /\ command.definition.fn \in TextHandlers)
             => \A f \in Files : Embeds(transcript[f].changes, transcript'[f].changes)]_vars

\* a text command and a pipe command have both enqueued on F1 and its text
\* is still the text sam_cmd found
HandlersOnlyEnqueueWitness ==
    /\ pc = "exec"
    /\ \E i, j \in DOMAIN hist.calls :
          /\ hist.calls[i].fn \in {"command_insert", "command_append", "command_change"}
          /\ hist.calls[j].fn \in {"command_filter", "command_pipein"}
    /\ Len(transcript["F1"].changes) >= 2
    /\ text = hist.text0

LoopFlagged == {d.name : d \in {e \in command_definition_table : "CMD_LOOP" \in e.flags}}

finished_dispatches ==
    {i \in DOMAIN hist.dispatches : i < Len(hist.dispatches) \/ pc # "call"}

\* C9: the handler of a command with the ONCE flag is invoked exactly once
\* per dispatch, whatever the number of selections and also when there is
\* no window.
OnceExactlyOnce ==
    \A i \in finished_dispatches :
        "CMD_ONCE" \in hist.dispatches[i].flags => hist.dispatches[i].calls = 1

\* C9 (amended): the handler of a command with the ONCE flag is invoked
\* exactly once per dispatch for every number of selections of the active
\* window, and when there is no window exactly once if the definition lacks
\* the WIN flag and not at all if it has it.
OnceAtMostOnce ==
    /\ \A i \in finished_dispatches :
          LET d == hist.dispatches[i]
          IN  "CMD_ONCE" \in d.flags =>
                  d.calls = IF d.parsed /\ (d.win # NoWin \/ "CMD_WIN" \notin d.flags)
                            THEN 1 ELSE 0
    /\ \A i \in DOMAIN hist.dispatches :
          "CMD_ONCE" \in hist.dispatches[i].flags => hist.dispatches[i].calls <= 1

\* a ONCE command was dispatched in a window with several selections, and
\* its handler ran once
OnceAtMostOnceWitness ==
    /\ pc = "done"
    /\ \E i \in DOMAIN hist.dispatches :
          /\ "CMD_ONCE" \in hist.dispatches[i].flags
          /\ hist.dispatches[i].win = "F1"
          /\ hist.dispatches[i].calls = 1
          /\ Len(sels["F1"]) >= 2

(***************************************************************************)
(* validate_token_stream alone, on every stream of up to MaxTokens tokens  *)
(***************************************************************************)
MaxTokens == 3

TokenTypes ==
    {"ST_INVALID", "ST_DELIMITER", "ST_GROUP_END", "ST_GROUP_START", "ST_NUMBER", "ST_STRING"}

\* the streams of n tokens, each of one byte
TokenStreams(n) ==
    {[i \in 1..n |-> SamToken(types[i], i - 1, 1)] : types \in [1..n -> TokenTypes]}

InitValidate ==
    /\ pc = "lexed"
    /\ command_line = <<>>
    /\ tokens \in UNION {TokenStreams(n) : n \in 0..MaxTokens}
    /\ read_index = 0
    /\ text = [f \in Files |-> FileText(f)]
    /\ transcript = [f \in Files |-> NoTranscript]
    /\ sels = [w \in Wins |-> <<Cursor(0)>>]
    /\ visual = FALSE
    /\ win = "F1"
    /\ windows = [w \in Wins |-> IF w = "F1" THEN "open" ELSE "unused"]
    /\ sam = NoSam
    /\ shell_register = <<>>
    /\ err = "SAM_ERR_OK"
    /\ editor = InitVis
    /\ hist = NoHist

\* if (validate_token_stream(&vis->sam, token_stream))
Validate ==
    /\ pc = "lexed"
    /\ pc' = IF validate_token_stream(tokens) THEN "valid" ELSE "invalid"
    /\ UNCHANGED <<lexVars, fileVars, viewVars, engineVars, hist>>

SpecValidate == InitValidate /\ [][Validate]_vars

(***************************************************************************)
(* C11  validate_token_stream                                              *)
(***************************************************************************)
TokensOfType(toks, type) == {i \in DOMAIN toks : toks[i].type = type}

RefLineStart(txt, n) ==
    LET newlines == {i \in 1..Len(txt) : txt[i] = "\n"}
    IN  IF n <= 1 THEN 0
        ELSE IF Cardinality(newlines) < n - 1 THEN Len(txt)
        ELSE CHOOSE i \in newlines : Cardinality({j \in newlines : j <= i}) = n - 1

\* the index of the comma of an address `,`, `,m`, `n,` or `n,m` that the
\* line begins with, 0 when the line begins with something else
CommaIndex ==
    LET k == IF tokens # <<>> /\ tokens[1].type = "ST_NUMBER" THEN 2 ELSE 1
    IN  IF /\ Len(tokens) >= k
           /\ tokens[k].type = "ST_DELIMITER"
           /\ token_byte(command_line, tokens[k]) = ","
        THEN k ELSE 0

\* the number at index i of the tokens, 0 when there is none
NumberAt(i) ==
    IF i >= 1 /\ i <= Len(tokens) /\ tokens[i].type = "ST_NUMBER"
    THEN s8_to_i64(sam_token_to_s8(command_line, tokens[i]))
    ELSE 0

\* what the address stands for in txt: from the start of line n, or from
\* byte 0 without a left side, to the end of line m, or to the end of the
\* text without a right side
RefCommaRange(txt) ==
    Filerange(IF NumberAt(CommaIndex - 1) >= 1 THEN RefLineStart(txt, NumberAt(CommaIndex - 1)) ELSE 0,
              IF NumberAt(CommaIndex + 1) >= 1 THEN RefLineStart(txt, NumberAt(CommaIndex + 1) + 1)
              ELSE Len(txt))

\* C12: when the line begins with an address, also one without a left side
\* such as `,` or `,2`, every handler called for the line receives the
\* range the address evaluates to, not the default range of its command.
AddressOverridesDefault ==
    CommaIndex # 0 =>
        \A i \in DOMAIN hist.calls :
            hist.calls[i].win # NoWin
                => hist.calls[i].range = RefCommaRange(hist.text0[hist.calls[i].win])

(***************************************************************************)
(* C17  line addresses                                                     *)
(***************************************************************************)
\* the line is `n,md` with 1 <= n <= m and line m in the text
LineDelete ==
    /\ CommaIndex = 2 /\ Len(tokens) = 4
    /\ NumberAt(1) >= 1 /\ NumberAt(1) <= NumberAt(3)
    /\ NumberAt(3) <= Cardinality({i \in 1..Len(hist.text0["F1"]) : hist.text0["F1"][i] = "\n"})
    /\ tokens[4].type = "ST_STRING"
    /\ sam_token_to_s8(command_line, tokens[4]) = <<"d">>

\* C17: for `n,md` with 1 <= n <= m the handler receives the range from the
\* start of line n to the start of line m+1, and sam_cmd leaves the text
\* without lines n..m and the cursor at the start of what was line n; `1,2d`
\* on three lines leaves the third line and the cursor at byte 0.
LineAddressDeletesLines ==
    LineDelete =>
        LET txt   == hist.text0["F1"]
            range == Filerange(RefLineStart(txt, NumberAt(1)), RefLineStart(txt, NumberAt(3) + 1))
        IN  /\ \A i \in DOMAIN hist.calls : hist.calls[i].range = range
            /\ pc \notin {"trapped", "hung"}
            /\ pc = "done" =>
                  /\ Len(hist.calls) = 1
                  /\ text["F1"] = SubSeq(txt, 1, range.start) \o SubSeq(txt, range.end + 1, Len(txt))
                  /\ Len(sels["F1"]) = 1
                  /\ view_cursors_pos(sels["F1"][1]) = range.start
                  /\ err = "SAM_ERR_OK"

\* `1,2d` on the three lines has left the third and the cursor at byte 0
LineAddressDeletesLinesWitness ==
    /\ pc = "done"
    /\ command_line = <<"1", ",", "2", "d">>
    /\ hist.text0["F1"] = ExampleText
    /\ text["F1"] = <<"g", "a", "m", "m", "a", "\n">>
    /\ view_cursors_pos(sels["F1"][1]) = 0

(***************************************************************************)
(* C13  a command that takes no address, given one                         *)
(***************************************************************************)
\* C13: when the line begins with an address that has a left side (`1,2q`)
\* and the command that follows has ADDRESS_NONE in its definition, parsing
\* the command fails: no dispatch of such a command is recorded as parsed,
\* and its handler is not called.
AddressNoneRejected ==
    CommaIndex = 2 =>
        /\ \A i \in DOMAIN hist.dispatches :
               "CMD_ADDRESS_NONE" \in hist.dispatches[i].flags => ~hist.dispatches[i].parsed
        /\ \A i \in DOMAIN hist.calls :
               "CMD_ADDRESS_NONE" \notin hist.calls[i].flags

(***************************************************************************)
(* C14  the sub-command of a command with the CMD flag                     *)
(***************************************************************************)
\* C14: when the handler of a command whose definition has the CMD flag is
\* about to run and the name of a command follows on the line, the
\* parser has attached a sub-command: command.cmd is not NULL.
SubCommandAttached ==
    /\ pc = "call"
    /\ "CMD_CMD" \in command.definition.flags
    /\ \E i \in read_index + 1 .. Len(tokens) :
           /\ tokens[i].type = "ST_STRING"
           /\ lookup_command_definition(command_line, tokens[i]) # NoDefinition
    => command.cmd # "NULL"

(***************************************************************************)
(* C15  x and y recurse once per match, once per gap                       *)
(***************************************************************************)
\* the number of occurrences of the byte c of txt inside range
Occurrences(txt, c, range) ==
    Cardinality({i \in range.start + 1 .. range.end : i <= Len(txt) /\ txt[i] = c})

\* the calls of the handler fn in the history
CallsOf(fn) == {i \in DOMAIN hist.calls : hist.calls[i].fn = fn}

\* C15: once the line `x/a/ p` or `y/a/ p` is over, the handler of p has
\* been called once per match of `a` in the range R that x received, resp.
\* once more than that for y.
ExtractRecursesPerMatch ==
    /\ pc \in {"done", "trapped"}
    /\ command_line \in {<<"x", "/", "a", "/", " ", "p">>, <<"y", "/", "a", "/", " ", "p">>}
    => /\ CallsOf("command_extract") # {}
       /\ \A i \in CallsOf("command_extract") :
              Cardinality(CallsOf("command_print")) =
                  Occurrences(hist.text0["F1"], "a", hist.calls[i].range)
                  + (IF command_line[1] = "y" THEN 1 ELSE 0)

(***************************************************************************)
(* C16  the count test and the guard                                       *)
(***************************************************************************)
MaxCount == 3

\* the text and the pattern command_guard is applied to
CountText == <<"b", "a">>
CountPattern == "a"

\* the commands command_guard is applied to: g or v, a count of the form
\* n,m (mod false) or %n (mod true), an iteration, with or without a regex
GuardCommands ==
    {[NoCommand EXCEPT !.definition = d,
                       !.count = [start |-> n, end |-> m, mod |-> md],
                       !.iteration = i,
                       !.regex = r] :
        d \in {x \in command_definition_table : x.fn = "command_guard"},
        n \in 0..MaxCount, m \in 0..MaxCount, md \in BOOLEAN, i \in 0..MaxCount,
        r \in {"NULL", CountPattern}}

InitCount ==
    /\ pc = "guard"
    /\ command_line = <<>>
    /\ tokens = <<>>
    /\ read_index = 0
    /\ text = [f \in Files |-> IF f = "F1" THEN CountText ELSE <<>>]
    /\ transcript = [f \in Files |-> NoTranscript]
    /\ \E s \in 0..Len(CountText), e \in 0..Len(CountText) :
          /\ s <= e
          /\ sels = [w \in Wins |-> IF w = "F1" THEN <<Selection(s, e, TRUE)>> ELSE <<Cursor(0)>>]
    /\ visual = TRUE
    /\ win = "F1"
    /\ windows = [w \in Wins |-> IF w = "F1" THEN "open" ELSE "unused"]
    /\ \E c \in GuardCommands : sam = [NoSam EXCEPT !.commands = <<c>>, !.win = "F1", !.sel = 1]
    /\ shell_register = <<>>
    /\ err = "SAM_ERR_OK"
    /\ editor = InitVis
    /\ hist = NoHist

\* command_guard up to its choice between sam_execute(command->cmd) and
\* disposing of the selection
CountGuard ==
    /\ pc = "guard"
    /\ pc' = IF guard_recurses(command, guard_match(command, text["F1"],
                                                    view_selections_get(sels["F1"][1])))
             THEN "recurse" ELSE "dispose"
    /\ UNCHANGED <<lexVars, fileVars, viewVars, engineVars, hist>>

SpecCount == InitCount /\ [][CountGuard]_vars

\* the pattern occurs in txt inside range
OccursIn(txt, pattern, range) ==
    \E p \in range.start .. range.end :
        /\ p + Len(pattern) <= range.end
        /\ SubSeq(txt, p + 1, p + Len(pattern)) = pattern

\* C16: the count test at iteration i succeeds iff n <= i <= m for the form
\* n,m and iff i mod n = 0 for the form %n with n >= 1; g goes on to its
\* sub-command exactly when the test succeeds and the pattern matches (no
\* pattern matches always), v exactly when that conjunction is false.
CountTestAndGuard ==
    pc \in {"recurse", "dispose"} =>
        LET c     == command
            range == view_selections_get(sels["F1"][1])
            test  == IF c.count.mod THEN c.iteration % c.count.start = 0
                     ELSE c.count.start <= c.iteration /\ c.iteration <= c.count.end
            match == c.regex = "NULL" \/ OccursIn(text["F1"], <<c.regex>>, range)
        IN  (c.count.mod => c.count.start >= 1) =>
                /\ count_evaluate(c) <=> test
                /\ c.definition.name = <<"g">> => ((pc = "recurse") <=> (test /\ match))
                /\ c.definition.name = <<"v">> => ((pc = "recurse") <=> ~(test /\ match))

\* g at iteration 2 of the count 1,2 went on to its sub-command, the pattern
\* matching in the range
CountTestAndGuardWitness ==
    /\ pc = "recurse"
    /\ command.definition.name = <<"g">>
    /\ command.count = [start |-> 1, end |-> 2, mod |-> FALSE]
    /\ command.iteration = 2
    /\ command.regex = CountPattern
    /\ view_selections_get(sels["F1"][1]) = Filerange(1, 2)

(***************************************************************************)
(* C18  ,x/p/ c/t/                                                         *)
(***************************************************************************)
\* C18: on the three lines, once the line `,x/a/ c/A/` is over sam_cmd has
\* returned and every `a` of the text is an `A`, all else as it was.
ExtractChangeReplaces ==
    /\ pc \in {"done", "trapped"}
    /\ command_line = <<",", "x", "/", "a", "/", " ", "c", "/", "A", "/">>
    => /\ pc = "done"
       /\ text["F1"] = [i \in DOMAIN hist.text0["F1"] |->
                            IF hist.text0["F1"][i] = "a" THEN "A" ELSE hist.text0["F1"][i]]

(***************************************************************************)
(* C19  /pat/ cmd                                                          *)
(***************************************************************************)
\* C19: on the three lines with the cursor at 0, the line `/beta/ p` calls
\* the handler of p with the first match of `beta`, bytes 6..10, and leaves
\* one selection covering them.
RegexAddressSelects ==
    /\ pc \in {"done", "trapped"}
    /\ command_line = <<"/", "b", "e", "t", "a", "/", " ", "p">>
    => /\ pc = "done"
       /\ CallsOf("command_print") # {}
       /\ \A i \in CallsOf("command_print") : hist.calls[i].range = Filerange(6, 10)
       /\ Len(sels["F1"]) = 1
       /\ view_selections_get(sels["F1"][1]) = Filerange(6, 10)

(***************************************************************************)
(* C20  a/X/ and d on the same range                                       *)
(***************************************************************************)
\* the windows where, on this line, the handlers of a and of d were called
\* with one and the same non-empty range
AppendAndDeleteSameRange ==
    {w \in Wins : \E i \in CallsOf("command_append"), j \in CallsOf("command_delete") :
                      /\ hist.calls[i].win = w /\ hist.calls[j].win = w
                      /\ hist.calls[i].range = hist.calls[j].range
                      /\ hist.calls[i].range.start < hist.calls[i].range.end}

\* C20: when sam_cmd returns from a line on which a/X/ and d were applied to
\* the same non-empty range of a file, it reports a conflict and the text
\* of the file is what it was.
AppendDeleteConflict ==
    pc = "done" =>
        \A w \in AppendAndDeleteSameRange :
            err = "SAM_ERR_CONFLICT" /\ text[w] = hist.text0[w]

(***************************************************************************)
(* C26  what the apply loop makes of the text                              *)
(***************************************************************************)
\* n copies of data
RECURSIVE Repeated(_, _)
Repeated(data, n) == IF n <= 0 THEN <<>> ELSE data \o Repeated(data, n - 1)

\* what the changes from index i on insert at position p of the text they
\* were enqueued for, in the order of the list
RECURSIVE InsertedAt(_, _, _)
InsertedAt(changes, i, p) ==
    IF i > Len(changes) THEN <<>>
    ELSE (IF IsInsert(changes[i].type) /\ changes[i].range.start = p
          THEN Repeated(changes[i].data, changes[i].count) ELSE <<>>)
         \o InsertedAt(changes, i + 1, p)

\* the byte at position p of that text is inside a range the changes delete
DeletedAt(changes, p) ==
    \E i \in 1..Len(changes) :
        /\ IsDelete(changes[i].type)
        /\ changes[i].range.start <= p /\ p < changes[i].range.end

\* txt from position p on, the range of each change replaced by the copies
\* of its data, by nothing for a delete
RECURSIVE Replaced(_, _, _)
Replaced(txt, changes, p) ==
    IF p > Len(txt) THEN <<>>
    ELSE InsertedAt(changes, 1, p)
         \o (IF p < Len(txt) /\ ~DeletedAt(changes, p) THEN <<txt[p + 1]>> ELSE <<>>)
         \o Replaced(txt, changes, p + 1)

\* C26: the apply loop leaves, for a transcript without error, the text it
\* started from with the range of each change replaced by count copies of
\* its data (by nothing for a pure delete).
ApplyReplacesRanges ==
    (pc = "done" /\ transcript["F1"].error = "SAM_ERR_OK")
        => text["F1"] = Replaced(hist.text0["F1"], transcript["F1"].changes, 0)

\* a delete of a non-empty range and, after it in the list, an insertion of
\* two copies have been applied
ApplyReplacesRangesWitness ==
    /\ pc = "done"
    /\ transcript["F1"].error = "SAM_ERR_OK"
    /\ \E i, j \in 1..Len(transcript["F1"].changes) :
          /\ i < j
          /\ transcript["F1"].changes[i].type = TRANSCRIPT_DELETE
          /\ text_range_size(transcript["F1"].changes[i].range) > 0
          /\ IsInsert(transcript["F1"].changes[j].type)
          /\ transcript["F1"].changes[j].count = 2
    /\ text["F1"] # hist.text0["F1"]

(***************************************************************************)
(* C27  the selections after the apply loop                                *)
(***************************************************************************)
\* the files whose changes the apply loop applies
AppliedFiles ==
    {f \in Files : ~internal(f) /\ is_open(f) /\ transcript[f].error = "SAM_ERR_OK"}

\* by how much the changes before index i of the list shift what follows
RECURSIVE ShiftBefore(_, _)
ShiftBefore(changes, i) ==
    IF i <= 1 THEN 0
    ELSE LET c == changes[i - 1]
         IN  ShiftBefore(changes, i - 1)
             + (IF IsInsert(c.type) /\ c.count > 0 THEN Len(c.data) * c.count ELSE 0)
             - (IF IsDelete(c.type) THEN c.range.end - c.range.start ELSE 0)

\* the selection of the change c, whose range starts at start once the
\* changes before it are applied, is what C27 says: after a pure delete
\* disposed of (visual) or a cursor at start; after an insert or change the
\* inserted range, anchored (visual) or a cursor at its end, at its start
\* when the data has a newline
SelectionFollows(c, start, s) ==
    IF c.type = TRANSCRIPT_DELETE
    THEN IF sam.visual THEN s.disposed \/ s.dead ELSE view_cursors_pos(s) = start
    ELSE IF sam.visual
    THEN view_selections_get(s) = Filerange(start, start + Len(c.data) * c.count) /\ s.anchored
    ELSE view_cursors_pos(s) = IF HasNewline(c.data) THEN start
                               ELSE start + Len(c.data) * c.count

\* the changes of the list after index i that are attached to the selection
\* of the change at i
AttachedAfter(changes, i) ==
    {j \in i + 1 .. Len(changes) :
        changes[j].win = changes[i].win /\ changes[j].sel = changes[i].sel}

AttachedBefore(changes, i) ==
    {j \in 1 .. i - 1 :
        changes[j].win = changes[i].win /\ changes[j].sel = changes[i].sel}

CallsOfDispatch(k) == {i \in DOMAIN hist.calls : hist.calls[i].dispatch = k}

\* the n-th smallest element of a set of numbers
NthOf(S, n) == CHOOSE i \in S : Cardinality({j \in S : j <= i}) = n

\* the number of the line of txt that contains pos, a newline being the last
\* byte of its line
RefLineOf(txt, pos) == 1 + Cardinality({i \in 1..Len(txt) : i <= pos /\ txt[i] = "\n"})

\* the default range of a command with these flags for the selection s, one
\* of count selections of a view on txt
RefDefaultRange(flags, txt, s, count) ==
    IF sam.visual
    THEN Filerange(IF s.anchor < s.cursor THEN s.anchor ELSE s.cursor,
                   IF s.anchor < s.cursor THEN s.cursor ELSE s.anchor)
    ELSE IF "CMD_ADDRESS_POS" \in flags THEN Filerange(s.cursor, s.cursor)
    ELSE IF "CMD_ADDRESS_LINE" \in flags
    THEN Filerange(RefLineStart(txt, RefLineOf(txt, s.cursor)),
                   RefLineStart(txt, RefLineOf(txt, s.cursor) + 1))
    ELSE IF count = 1 /\ "CMD_ADDRESS_ALL_1CURSOR" \in flags THEN Filerange(0, Len(txt))
    ELSE Filerange(s.cursor, IF s.cursor < Len(txt) THEN s.cursor + 1 ELSE s.cursor)

\* range is what the command of dispatch k is to receive for the selection
\* s: what the address the line begins with evaluates to (stated for the
\* forms with a comma and for the whole file, %), else the default range
RangeDerived(range, k, flags, txt, s, count) ==
    IF k = 1 /\ tokens[1].type \in {"ST_NUMBER", "ST_DELIMITER"}
    THEN IF CommaIndex # 0 THEN range = RefCommaRange(txt)
         ELSE token_byte(command_line, tokens[1]) = "%" => range = Filerange(0, Len(txt))
    ELSE range = RefDefaultRange(flags, txt, s, count)

\* C28: a command without the ONCE flag dispatched in a window has its
\* handler called for the selections of the view in their order, one call per
\* selection, each with the range derived from that selection (its default
\* range, or what the address of the line evaluates to); a call follows only a call that
\* returned success, and the dispatch ends with the last selection or with
\* the first call that did not return success.
OncePerSelection ==
    \A k \in DOMAIN hist.dispatches :
        LET d     == hist.dispatches[k]
            live  == LiveSelections(d.sels)
            calls == CallsOfDispatch(k)
            ended == k < Len(hist.dispatches) \/ pc \notin {"call"}
        IN  ("CMD_ONCE" \notin d.flags /\ d.win # NoWin /\ d.parsed) =>
                /\ Cardinality(calls) <= Cardinality(live)
                /\ \A n \in 1..Cardinality(calls) :
                      LET c == hist.calls[NthOf(calls, n)]
                      IN  /\ c.win = d.win
                          /\ c.sel = NthOf(live, n)
                          /\ n < Cardinality(calls) => c.result = "true"
                          /\ RangeDerived(c.range, k, d.flags, hist.text0[d.win],
                                          d.sels[c.sel], Cardinality(live))
                /\ ended =>
                      \/ Cardinality(calls) = Cardinality(live)
                      \/ /\ calls # {}
                         /\ hist.calls[NthOf(calls, Cardinality(calls))].result # "true"

\* the handler of d was called for each of three cursors, in their order
OncePerSelectionWitness ==
    /\ pc = "done"
    /\ \E k \in DOMAIN hist.dispatches :
          /\ hist.dispatches[k].name = <<"d">>
          /\ Cardinality(LiveSelections(hist.dispatches[k].sels)) = 3
          /\ Cardinality(CallsOfDispatch(k)) = 3
          /\ \A n \in 1..3 : hist.calls[NthOf(CallsOfDispatch(k), n)].sel = n

\* a loop over the selections broke off after a call that failed
OncePerSelectionStopped ==
    \E k \in DOMAIN hist.dispatches :
        /\ "CMD_ONCE" \notin hist.dispatches[k].flags
        /\ CallsOfDispatch(k) # {}
        /\ Cardinality(CallsOfDispatch(k)) < Cardinality(LiveSelections(hist.dispatches[k].sels))
        /\ hist.calls[NthOf(CallsOfDispatch(k), Cardinality(CallsOfDispatch(k)))].result = "false"

(***************************************************************************)
(* C29: the address delimiter +                                            *)
(***************************************************************************)
\* the line begins with the address `.+` or `.+n`
PlusAddress ==
    /\ Len(tokens) >= 3
    /\ tokens[1].type = "ST_DELIMITER" /\ token_byte(command_line, tokens[1]) = "."
    /\ tokens[2].type = "ST_DELIMITER" /\ token_byte(command_line, tokens[2]) = "+"

\* the n of the address: the number after the +, 1 when there is none
PlusOffset == IF tokens[3].type = "ST_NUMBER" THEN NumberAt(3) ELSE 1

\* C29: for the address `.+n` the handler receives the n-th line after the
\* line that contains the end of the current range; without a right side, `.+`,
\* n is 1 and the range is the next line.
PlusAddressSelectsFollowingLine ==
    PlusAddress =>
        \A i \in CallsOfDispatch(1) :
            LET c    == hist.calls[i]
                txt  == hist.text0[c.win]
                d    == hist.dispatches[1]
                cur  == RefDefaultRange(d.flags, txt, d.sels[c.sel],
                                        Cardinality(LiveSelections(d.sels)))
                line == RefLineOf(txt, cur.end - (IF cur.start < cur.end /\ txt[cur.end] = "\n" THEN 1 ELSE 0))
                                + PlusOffset
            IN  c.range = Filerange(RefLineStart(txt, line), RefLineStart(txt, line + 1))

\* the handler of `.+1d` or `.+d` was called on three lines
PlusAddressCalled ==
    /\ PlusAddress /\ PlusOffset = 1
    /\ CallsOfDispatch(1) # {}

(***************************************************************************)
(* C30: the shell string of a SHELL command                                *)
(***************************************************************************)
\* C30: a SHELL command (<, |) takes the remainder of the line as its shell
\* string: once its handler has returned the token stream is at its end, and
\* no command is dispatched after it.
ShellStringConsumed ==
    \A k \in DOMAIN hist.dispatches :
        ("CMD_SHELL" \in hist.dispatches[k].flags /\ hist.dispatches[k].parsed) =>
            /\ k = Len(hist.dispatches)
            /\ (pc = "exec" /\ CallsOfDispatch(k) # {}) => read_index = Len(tokens)

\* a SHELL command has run with a shell string of one word
ShellStringConsumedWitness ==
    /\ pc = "exec"
    /\ hist.dispatches # <<>>
    /\ "CMD_SHELL" \in hist.dispatches[Len(hist.dispatches)].flags
    /\ CallsOfDispatch(Len(hist.dispatches)) # {}
    /\ read_index = Len(tokens)

(***************************************************************************)
(* C24: an interrupt while a pipe handler waits for its subprocess         *)
(***************************************************************************)
PipeHandlers == {"command_filter", "command_pipein", "command_pipeout"}

\* C24: a call of the handler of |, < or > that finds vis->interrupted set
\* when vis_pipe has returned enqueues nothing on any transcript and returns
\* failure, after which no handler is called for the line.
InterruptedPipeAbandons ==
    [][(pc = "call" /\ Len(hist.calls) + 1 \in hist'.interrupted)
          => /\ transcript' = transcript
             /\ hist'.calls[Len(hist'.calls)].fn \in PipeHandlers
             /\ hist'.calls[Len(hist'.calls)].result = "false"
             /\ sam'.should_exit
             /\ pc' = "exec"]_vars

\* after an interrupted pipe no further handler is called
InterruptedPipeStopsLine ==
    \A i \in hist.interrupted : i = Len(hist.calls) /\ Len(hist.dispatches) = hist.calls[i].dispatch

\* an interrupted  <  after a command that has enqueued a change: the line
\* is over and the transcript holds the change of the first command only
InterruptedPipeWitness ==
    /\ pc = "done"
    /\ \E i \in hist.interrupted : i >= 2 /\ hist.calls[i].fn = "command_pipein"
    /\ Len(transcript["F1"].changes) = 1

(***************************************************************************)
(* C25: sam_cmd called again                                               *)
(***************************************************************************)
MaxInvocations == 2

\* the lines of the first call: every command alone, the groups, a line
\* whose second command conflicts with the first, is not a command or is
\* not a word
FirstLines ==
    LinesOfWords(1) \cup GroupLines \cup {<<"p">>, <<"d", " ", "d">>, <<"d", " ", "f", "o", "o">>,
                                             <<"d", " ", "%">>}

\* the lines of a later call
AgainLines == {<<"d">>, <<"{">>, <<"f", "o", "o">>}

InitAgain == Init /\ command_line \in FirstLines

\* an engine that is left as the last call left it
sam_kept(s) == s

\* vis->sam.arena.start = vis->sam.arena.base; vis->sam.should_exit = 0: the
\* Command structs of the arena are gone
sam_reset(s) == [s EXCEPT !.should_exit = FALSE, !.commands = <<>>]

\* sam_cmd has returned and is called again, up to sam_lex: err is
\* SAM_ERR_OK, the arenas are rewound, the SamTokenStream pushed on the
\* token arena is zeroed (count and read_index are 0)
SamCmdAgain ==
    /\ pc = "done"
    /\ hist.invocations < MaxInvocations
    /\ command_line' \in AgainLines
    /\ pc' = "entry"
    /\ err' = "SAM_ERR_OK"
    /\ UNCHANGED editor
    /\ sam' = sam_reset(sam)
    /\ tokens' = <<>>
    /\ read_index' = 0
    /\ hist' = [NoHist EXCEPT !.text0 = text, !.invocations = hist.invocations + 1]
    /\ UNCHANGED <<fileVars, viewVars, shell_register>>

NextAgain == Next \/ SamCmdAgain

SpecAgain == InitAgain /\ [][NextAgain]_vars

\* execute_token_stream is about to pop the first token after the address
ExecutionStarts ==
    /\ pc = "exec"
    /\ hist.calls = <<>> /\ hist.dispatches = <<>> /\ hist.rejected = <<>>
    /\ sam.nesting_level = 0 /\ Len(sam.commands) = 1 /\ ~sam.should_exit

\* C25: every call of sam_cmd starts from a reset engine, whatever the call
\* before it did: when the line is about to be lexed should_exit is 0, the
\* arena holds no Command, the token stream is empty and read_index is 0;
\* and when a line has passed validation and its execution starts, the
\* transcript of every file that is not internal is empty with error OK.
EngineReset ==
    /\ pc = "entry" =>
          /\ ~sam.should_exit
          /\ sam.commands = <<>>
          /\ tokens = <<>>
          /\ read_index = 0
    /\ ExecutionStarts =>
          \A f \in Files : ~internal(f) => transcript[f] = NoTranscript

\* sam_cmd is called again after a call that has changed the text of F1,
\* and the execution of the new line starts
EngineResetWitness ==
    /\ hist.invocations = 2
    /\ text["F1"] # FileText("F1")
    /\ ExecutionStarts

\* the second call is about to lex its line and the transcript of F1 is
\* still as the first call left it, with an error
EngineResetStale ==
    /\ hist.invocations = 2
    /\ pc = "entry"
    /\ transcript["F1"].error # "SAM_ERR_OK"

(***************************************************************************)
(* C21: vis_cmd_register and vis_cmd_unregister                            *)
(***************************************************************************)
\* map_put: false, and the map as it was, when the key is in the map or
\* there is no memory for the entry
map_put(map, key, value, memory) ==
    IF key \in DOMAIN map \/ ~memory THEN [ok |-> FALSE, map |-> map]
    ELSE [ok |-> TRUE,
          map |-> [k \in DOMAIN map \cup {key} |-> IF k = key THEN value ELSE map[k]]]

\* map_delete: the value of the key (not NULL) or NULL, and the map without
\* the key
map_delete(map, key) ==
    [ok  |-> key \in DOMAIN map,
     map |-> IF DOMAIN map \subseteq {key} THEN NoMap
             ELSE [k \in DOMAIN map \ {key} |-> map[k]]]

\* map_get(map, key) is not NULL; a map that was never allocated has no key
map_get(map, key) == key \in DOMAIN map

\* (const char *)0
NullName == <<>>

\* the definition vis_cmd_register makes for a name
user_definition(name) ==
    [name |-> name, fn |-> "command_user",
     flags |-> {"CMD_ARGV", "CMD_FORCE", "CMD_ONCE", "CMD_ADDRESS_ALL"}]

\* a registration that leaves the definition in vis->cmds when the second
\* map_put fails
cmd_register_half(v, name, func, memory) ==
    LET v1  == [v EXCEPT !.usercmds.allocated = TRUE]
        cmd == [definition |-> user_definition(name), func |-> func]
        c   == map_put(v1.cmds, name, cmd.definition, memory.cmds)
        u   == map_put(v1.usercmds.entries, name, cmd, memory.usercmds)
    IN  IF name = NullName \/ (~v.usercmds.allocated /\ ~memory.new)
        THEN [result |-> FALSE, vis |-> v]
        ELSE IF c.ok /\ u.ok
        THEN [result |-> TRUE, vis |-> [v1 EXCEPT !.cmds = c.map, !.usercmds.entries = u.map]]
        ELSE [result |-> FALSE, vis |-> [v1 EXCEPT !.cmds = c.map]]

\* vis_cmd_register(vis, name, help, data, func); memory says which of
\* map_new and the two map_put find memory
cmd_register(v, name, func, memory) ==
    LET v1  == [v EXCEPT !.usercmds.allocated = TRUE]
        cmd == [definition |-> user_definition(name), func |-> func]
        c   == map_put(v1.cmds, name, cmd.definition, memory.cmds)
        u   == map_put(v1.usercmds.entries, name, cmd, memory.usercmds)
    IN  IF name = NullName \/ (~v.usercmds.allocated /\ ~memory.new)
        THEN [result |-> FALSE, vis |-> v]
        ELSE IF ~c.ok THEN [result |-> FALSE, vis |-> v1]
        ELSE IF u.ok
        THEN [result |-> TRUE, vis |-> [v1 EXCEPT !.cmds = c.map, !.usercmds.entries = u.map]]
        ELSE [result |-> FALSE, vis |-> [v1 EXCEPT !.cmds = map_delete(c.map, name).map]]

\* vis_cmd_unregister(vis, name): && evaluates the second map_delete only
\* when the first has found the name
cmd_unregister(v, name) ==
    LET c == map_delete(v.cmds, name)
        u == map_delete(v.usercmds.entries, name)
    IN  IF name = NullName THEN [result |-> TRUE, vis |-> v]
        ELSE IF ~map_get(v.usercmds.entries, name) THEN [result |-> FALSE, vis |-> v]
        ELSE IF ~c.ok THEN [result |-> FALSE, vis |-> v]
        ELSE [result |-> u.ok, vis |-> [v EXCEPT !.cmds = c.map, !.usercmds.entries = u.map]]

\* the names the calls are made with: a builtin, three other names, NULL
RegisterNames ==
    {<<"d">>, <<"u">>, <<"u", "v">>, <<"w", "c">>, NullName}

UserFunctions == {"f1", "f2"}

InitRegister ==
    /\ pc = "entry"
    /\ command_line = <<"d">>
    /\ tokens = <<>>
    /\ read_index = 0
    /\ text = [f \in Files |-> FileText(f)]
    /\ transcript = [f \in Files |-> NoTranscript]
    /\ sels = [w \in Wins |-> <<Cursor(0)>>]
    /\ visual = FALSE
    /\ win = "F1"
    /\ windows = [w \in Wins |-> IF w = "F1" THEN "open" ELSE "unused"]
    /\ sam = NoSam
    /\ shell_register = <<>>
    /\ err = "SAM_ERR_OK"
    /\ editor = InitVis
    /\ hist = NoHist

vis_cmd_register ==
    \E name \in RegisterNames, func \in UserFunctions,
       memory \in [new : BOOLEAN, cmds : BOOLEAN, usercmds : BOOLEAN] :
        LET r == cmd_register(editor, name, func, memory)
        IN  /\ editor' = r.vis
            /\ hist' = [hist EXCEPT !.call = [op |-> "register", name |-> name, result |-> r.result]]
            /\ UNCHANGED <<pc, lexVars, fileVars, viewVars, sam, shell_register, err>>

vis_cmd_unregister ==
    \E name \in RegisterNames :
        LET r == cmd_unregister(editor, name)
        IN  /\ editor' = r.vis
            /\ hist' = [hist EXCEPT !.call = [op |-> "unregister", name |-> name, result |-> r.result]]
            /\ UNCHANGED <<pc, lexVars, fileVars, viewVars, sam, shell_register, err>>

NextRegister == vis_cmd_register \/ vis_cmd_unregister

SpecRegister == InitRegister /\ [][NextRegister]_vars

\* C21: after any sequence of vis_cmd_register and vis_cmd_unregister calls
\* the keys of usercmds are the keys of cmds that are not builtin names, the
\* definition cmds has for such a key is the one of its usercmds entry, and
\* every builtin is in cmds with the definition of the table.
RegistryConsistent ==
    /\ DOMAIN editor.usercmds.entries = DOMAIN editor.cmds \ BuiltinNames
    /\ \A n \in DOMAIN editor.usercmds.entries :
          editor.cmds[n] = editor.usercmds.entries[n].definition
    /\ \A d \in command_definition_table :
          d.name \in DOMAIN editor.cmds /\ editor.cmds[d.name] = d

\* with two user commands registered, the registration of a third name has
\* failed for lack of memory
RegistryConsistentWitness ==
    /\ Cardinality(DOMAIN editor.usercmds.entries) = 2
    /\ hist.call.op = "register"
    /\ ~hist.call.result
    /\ hist.call.name \notin DOMAIN editor.cmds \cup {NullName}

\* a user command has been unregistered
RegistryUnregistered ==
    /\ hist.call.op = "unregister"
    /\ hist.call.result
    /\ hist.call.name \notin DOMAIN editor.cmds \cup {NullName}

(***************************************************************************)
(* set: sam_cmd called with a set line                                     *)
(***************************************************************************)
\* lines that toggle an option, give a value with the toggle, or set a Bool
\* or String option
ToggleLines ==
    {<<"s", "e", "t", " ", "a", "i", "!">>,
     <<"s", "e", "t", " ", "!", "a", "i">>,
     <<"s", "e", "t", " ", "a", "u", "t", "o", "i", "n", "d", "e", "n", "t", "!">>,
     <<"s", "e", "t", " ", "e", "t", "!">>,
     <<"s", "e", "t", " ", "!", "e", "t">>,
     <<"s", "e", "t", " ", "n", "u", "!">>,
     <<"s", "e", "t", " ", "!", "n", "u">>,
     <<"s", "e", "t", " ", "r", "n", "u", "!">>,
     <<"s", "e", "t", " ", "!", "r", "n", "u">>,
     <<"s", "e", "t", " ", "c", "u", "l", "!">>,
     <<"s", "e", "t", " ", "!", "c", "u", "l">>,
     <<"s", "e", "t", " ", "s", "h", "o", "w", "t", "a", "b", "s", "!">>,
     <<"s", "e", "t", " ", "!", "s", "h", "o", "w", "t", "a", "b", "s">>,
     <<"s", "e", "t", " ", "s", "b", "!">>,
     <<"s", "e", "t", " ", "!", "s", "b">>,
     <<"s", "e", "t", " ", "i", "c", "!">>,
     <<"s", "e", "t", " ", "!", "i", "c">>,
     <<"s", "e", "t", " ", "c", "h", "a", "n", "g", "e", "2", "5", "6", "c", "o", "l", "o", "r", "s", "!">>,
     <<"s", "e", "t", " ", "!", "c", "h", "a", "n", "g", "e", "2", "5", "6", "c", "o", "l", "o", "r", "s">>,
     <<"s", "e", "t", " ", "c", "h", "a", "n", "g", "e", "!">>,
     <<"s", "e", "t", " ", "!", "c", "h", "a", "n", "g", "e">>,
     <<"s", "e", "t", " ", "a", "i", "!", " ", "o", "n">>,
     <<"s", "e", "t", " ", "!", "a", "i", " ", "o", "n">>,
     <<"s", "e", "t", " ", "e", "t", "!", " ", "o", "f", "f">>,
     <<"s", "e", "t", " ", "!", "a", "i", "!">>,
     <<"s", "e", "t", " ", "t", "w", "!">>,
     <<"s", "e", "t", " ", "!", "t", "w">>,
     <<"s", "e", "t", " ", "s", "h", "e", "l", "l", "!">>,
     <<"s", "e", "t", " ", "!", "c", "c">>,
     <<"s", "e", "t", " ", "t", "w", "!", " ", "4">>,
     <<"s", "e", "t", " ", "!", "e", "s", "c", "d", "e", "l", "a", "y", " ", "5">>,
     <<"s", "e", "t", " ", "a", "i">>,
     <<"s", "e", "t", " ", "a", "i", " ", "o", "f", "f">>,
     <<"s", "e", "t", " ", "a", "i", " ", "O", "N">>,
     <<"s", "e", "t", " ", "a", "i", " ", "m", "a", "y", "b", "e">>,
     <<"s", "e", "t", " ", "e", "t", " ", "y", "e", "s">>,
     <<"s", "e", "t", " ", "n", "u">>,
     <<"s", "e", "t", " ", "r", "n", "u", " ", "o", "n">>,
     <<"s", "e", "t", " ", "s", "h", "e", "l", "l", " ", "s", "h">>,
     <<"s", "e", "t", " ", "l", "a", "y", "o", "u", "t", " ", "h">>,
     <<"s", "e", "t", " ", "l", "a", "y", "o", "u", "t", " ", "x">>,
     <<"s", "e", "t", " ", "f", "o", "o">>}

\* lines that set a Number option
NumberLines ==
    {<<"s", "e", "t", " ", "t", "w", " ", "0">>,
     <<"s", "e", "t", " ", "t", "w", " ", "4">>,
     <<"s", "e", "t", " ", "t", "w", " ", "2", "1", "4", "7", "4", "8", "3", "6", "4", "7">>,
     <<"s", "e", "t", " ", "t", "w", " ", "2", "1", "4", "7", "4", "8", "3", "6", "4", "8">>,
     <<"s", "e", "t", " ", "t", "w", " ", "9", "2", "2", "3", "3", "7", "2", "0", "3", "6", "8", "5", "4", "7", "7", "5", "8", "0", "7">>,
     <<"s", "e", "t", " ", "t", "w", " ", "9", "2", "2", "3", "3", "7", "2", "0", "3", "6", "8", "5", "4", "7", "7", "5", "8", "0", "8">>,
     <<"s", "e", "t", " ", "t", "w", " ", "1", "8", "4", "4", "6", "7", "4", "4", "0", "7", "3", "7", "0", "9", "5", "5", "1", "6", "1", "6">>,
     <<"s", "e", "t", " ", "t", "w", " ", "1", "8", "4", "4", "6", "7", "4", "4", "0", "7", "3", "7", "0", "9", "5", "5", "1", "6", "2", "0">>,
     <<"s", "e", "t", " ", "t", "w", " ", "9", "9", "9", "9", "9", "9", "9", "9", "9", "9", "9", "9", "9", "9", "9", "9", "9", "9", "9", "9">>,
     <<"s", "e", "t", " ", "t", "w", " ", "-", "1">>,
     <<"s", "e", "t", " ", "t", "w", " ", "-", "0">>,
     <<"s", "e", "t", " ", "t", "w", " ", "+", "4">>,
     <<"s", "e", "t", " ", "t", "w", " ", "-", "9", "9", "9", "9", "9", "9", "9", "9", "9", "9", "9", "9", "9", "9", "9", "9", "9", "9", "9", "9">>,
     <<"s", "e", "t", " ", "c", "c", " ", "5">>,
     <<"s", "e", "t", " ", "c", "c", " ", "4", "2", "9", "4", "9", "6", "7", "3", "0", "1">>,
     <<"s", "e", "t", " ", "w", "c", " ", "2", "1", "4", "7", "4", "8", "3", "6", "4", "8">>,
     <<"s", "e", "t", " ", "w", "c", " ", "8", "0">>,
     <<"s", "e", "t", " ", "e", "s", "c", "d", "e", "l", "a", "y", " ", "5", "0">>,
     <<"s", "e", "t", " ", "e", "s", "c", "d", "e", "l", "a", "y", " ", "-", "5">>,
     <<"s", "e", "t", " ", "e", "s", "c", "d", "e", "l", "a", "y", " ", "3", "6", "8", "9", "3", "4", "8", "8", "1", "4", "7", "4", "1", "9", "1", "0", "3", "2", "3", "2">>,
     <<"s", "e", "t", " ", "t", "w">>,
     <<"s", "e", "t", " ", "t", "w", " ", "x">>,
     <<"s", "e", "t", " ", "c", "o", "l", "o", "r", "c", "o", "l", "u", "m", "n", " ", "0", "0", "7">>}
SetLines == ToggleLines \cup NumberLines

\* every Bool option on, every Number option 8
AllOptions ==
    [NoOptions EXCEPT !.autoindent = TRUE, !.expandtab = TRUE, !.change_colors = TRUE,
                      !.ignorecase = TRUE,
                      !.options = UNION {ui_option_values(o.index) : o \in options},
                      !.tabwidth = 8, !.colorcolumn = 8, !.wrapcolumn = 8, !.escdelay = 8]

\* sam_cmd is called with a set line, with or without a window, the options
\* all off or all on
InitSet ==
    /\ pc = "entry"
    /\ command_line \in SetLines
    /\ tokens = <<>>
    /\ read_index = 0
    /\ text = [f \in Files |-> FileText(f)]
    /\ transcript = [f \in Files |-> NoTranscript]
    /\ sels = [w \in Wins |-> <<Cursor(0)>>]
    /\ visual = FALSE
    /\ win \in {"F1", NoWin}
    /\ windows = [w \in Wins |-> IF w = win THEN "open" ELSE "unused"]
    /\ sam = NoSam
    /\ shell_register = <<>>
    /\ err = "SAM_ERR_OK"
    /\ \E o \in {NoOptions, AllOptions} : editor = [InitVis EXCEPT !.opt = o]
    /\ hist = [NoHist EXCEPT !.editor = editor]

NextSet ==
    \/ SamLex
    \/ SamValidate
    \/ ExecCommand
    \/ command_set
    \/ ExecReturn
    \/ SamApply

SpecSet == InitSet /\ [][NextSet]_vars

(***************************************************************************)
(* C22: set name! and set !name                                            *)
(***************************************************************************)
\* the line is  set  followed by body
SetLineOf(body) == command_line = <<"s", "e", "t", " ">> \o body

\* whether a Bool option is on
OptionIsOn(o, index) ==
    CASE index = "OPTION_AUTOINDENT"       -> o.autoindent
      [] index = "OPTION_EXPANDTAB"        -> o.expandtab
      [] index = "OPTION_CHANGE_256COLORS" -> o.change_colors
      [] index = "OPTION_IGNORECASE"       -> o.ignorecase
      [] OTHER -> ui_option_values(index) \subseteq o.options

\* the values given with a toggle
ToggleValues == {<<"o", "n">>, <<"o", "f", "f">>, <<"4">>, <<"5">>}

\* the call of command_set has returned this result
SetReturned(result) ==
    /\ Len(hist.calls) = 1
    /\ hist.calls[1].fn = "command_set"
    /\ hist.calls[1].result = result

\* C22: for every name of a Bool option, with a window when the option
\* needs one,  set name!  and  set !name  return success and leave the
\* option inverted; with a value after the toggle, or for an option that is
\* not Bool, the command fails and leaves every option as it was.
SetToggleInverts ==
    pc = "done" =>
        \A o \in options : \A n \in o.names :
            /\ ( /\ SetLineOf(n \o <<"!">>) \/ SetLineOf(<<"!">> \o n)
                 /\ "VIS_OPTION_TYPE_BOOL" \in o.flags
                 /\ "VIS_OPTION_NEED_WINDOW" \in o.flags => win # NoWin )
                  => /\ SetReturned("true")
                     /\ OptionIsOn(editor.opt, o.index) # OptionIsOn(hist.editor.opt, o.index)
            /\ ( \/ /\ SetLineOf(n \o <<"!">>) \/ SetLineOf(<<"!">> \o n)
                    /\ "VIS_OPTION_TYPE_BOOL" \notin o.flags
                 \/ \E v \in ToggleValues :
                       \/ SetLineOf(n \o <<"!", " ">> \o v)
                       \/ SetLineOf(<<"!">> \o n \o <<" ">> \o v) )
                  => /\ SetReturned("false")
                     /\ editor = hist.editor

\* set ai! has switched autoindent off
SetToggleInvertsWitness ==
    /\ pc = "done"
    /\ SetLineOf(<<"a", "i", "!">>)
    /\ hist.editor.opt.autoindent
    /\ ~editor.opt.autoindent

(***************************************************************************)
(* C23: set name v for the Number options                                  *)
(***************************************************************************)
\* the values v of the lines  set name v : the text, whether
\* 0 <= v <= I32_MAX, and v if so
NumberCases ==
    {[v |-> <<"0">>,
      fits |-> TRUE, value |-> 0],
     [v |-> <<"4">>,
      fits |-> TRUE, value |-> 4],
     [v |-> <<"5">>,
      fits |-> TRUE, value |-> 5],
     [v |-> <<"5", "0">>,
      fits |-> TRUE, value |-> 50],
     [v |-> <<"8", "0">>,
      fits |-> TRUE, value |-> 80],
     [v |-> <<"0", "0", "7">>,
      fits |-> TRUE, value |-> 7],
     [v |-> <<"2", "1", "4", "7", "4", "8", "3", "6", "4", "7">>,
      fits |-> TRUE, value |-> 2147483647],
     [v |-> <<"2", "1", "4", "7", "4", "8", "3", "6", "4", "8">>,
      fits |-> FALSE, value |-> 0],
     [v |-> <<"4", "2", "9", "4", "9", "6", "7", "3", "0", "1">>,
      fits |-> FALSE, value |-> 0],
     [v |-> <<"9", "2", "2", "3", "3", "7", "2", "0", "3", "6", "8", "5", "4", "7", "7", "5", "8", "0", "7">>,
      fits |-> FALSE, value |-> 0],
     [v |-> <<"9", "2", "2", "3", "3", "7", "2", "0", "3", "6", "8", "5", "4", "7", "7", "5", "8", "0", "8">>,
      fits |-> FALSE, value |-> 0],
     [v |-> <<"1", "8", "4", "4", "6", "7", "4", "4", "0", "7", "3", "7", "0", "9", "5", "5", "1", "6", "1", "6">>,
      fits |-> FALSE, value |-> 0],
     [v |-> <<"1", "8", "4", "4", "6", "7", "4", "4", "0", "7", "3", "7", "0", "9", "5", "5", "1", "6", "2", "0">>,
      fits |-> FALSE, value |-> 0],
     [v |-> <<"3", "6", "8", "9", "3", "4", "8", "8", "1", "4", "7", "4", "1", "9", "1", "0", "3", "2", "3", "2">>,
      fits |-> FALSE, value |-> 0],
     [v |-> <<"9", "9", "9", "9", "9", "9", "9", "9", "9", "9", "9", "9", "9", "9", "9", "9", "9", "9", "9", "9">>,
      fits |-> FALSE, value |-> 0],
     [v |-> <<"-", "1">>,
      fits |-> FALSE, value |-> 0],
     [v |-> <<"-", "5">>,
      fits |-> FALSE, value |-> 0],
     [v |-> <<"-", "0">>,
      fits |-> TRUE, value |-> 0],
     [v |-> <<"+", "4">>,
      fits |-> TRUE, value |-> 4],
     [v |-> <<"-", "9", "9", "9", "9", "9", "9", "9", "9", "9", "9", "9", "9", "9", "9", "9", "9", "9", "9", "9", "9">>,
      fits |-> FALSE, value |-> 0]}
\* the value of a Number option; for tabwidth and escdelay the value handed
\* to view_tabwidth_set and termkey_set_waittime
NumberOption(o, index) ==
    CASE index = "OPTION_TABWIDTH"     -> o.tabwidth
      [] index = "OPTION_ESCDELAY"     -> o.escdelay
      [] index = "OPTION_COLOR_COLUMN" -> o.colorcolumn
      [] index = "OPTION_WRAP_COLUMN"  -> o.wrapcolumn

\* C23: for every name of a Number option, with a window when the option
\* needs one,  set name v  fails and leaves every option as it was when v is
\* negative or greater than I32_MAX, also when the digits of v do not fit an
\* i64, and succeeds with the option set to v when 0 <= v <= I32_MAX.
SetNumberRange ==
    pc = "done" =>
        \A o \in options : \A n \in o.names : \A c \in NumberCases :
            ( /\ "VIS_OPTION_TYPE_NUMBER" \in o.flags
              /\ SetLineOf(n \o <<" ">> \o c.v)
              /\ "VIS_OPTION_NEED_WINDOW" \in o.flags => win # NoWin )
               => IF c.fits
                  THEN /\ SetReturned("true")
                       /\ NumberOption(editor.opt, o.index) = c.value
                  ELSE /\ SetReturned("false")
                       /\ editor = hist.editor

\* set tw 18446744073709551620 (2^64 + 4) has failed in a window
SetNumberRangeWitness ==
    /\ pc = "done"
    /\ SetLineOf(<<"t", "w", " ">> \o
                 <<"1", "8", "4", "4", "6", "7", "4", "4", "0", "7",
                   "3", "7", "0", "9", "5", "5", "1", "6", "2", "0">>)
    /\ win # NoWin
    /\ SetReturned("false")
    /\ editor.opt.tabwidth = hist.editor.opt.tabwidth

\* set tw 2147483647 has set the tabwidth to I32_MAX
SetNumberAccepted ==
    /\ pc = "done"
    /\ SetLineOf(<<"t", "w", " ", "2", "1", "4", "7", "4", "8", "3", "6", "4", "7">>)
    /\ SetReturned("true")
    /\ editor.opt.tabwidth = 2147483647

(***************************************************************************)
(* C31: an address before a group                                          *)
(***************************************************************************)
\* lines of an address and a group, run on ExampleText, and the range the
\* address stands for: bytes 0 to 5, lines 2 to 3, lines 1 to 2
GroupAddressCases ==
    {[line  |-> <<"#", "0", ",", "#", "5", "{", " ", "a", "/", "X", "/", " ", "d", " ", "}", " ">>,
      range |-> Filerange(0, 5)],
     [line  |-> <<"2", ",", "3", "{", " ", "p", " ", "}", " ">>, range |-> Filerange(6, 17)],
     [line  |-> <<"1", ",", "2", "{", " ", "d", " ", "}", " ">>, range |-> Filerange(0, 11)]}

\* C31: on a line of an address followed by a group, every command of the
\* group is called with the range the address evaluates to.
GroupAddressApplies ==
    \A c \in GroupAddressCases :
        command_line = c.line =>
            \A i \in 1..Len(hist.calls) : hist.calls[i].range = c.range

\* both commands of the group of  #0,#5{ a/X/ d }  have been called
GroupAddressAppliesWitness ==
    /\ \E c \in GroupAddressCases : command_line = c.line
    /\ Len(hist.calls) = 2
    /\ \A i \in 1..2 : hist.calls[i].result = "true"

\* without the group the address is the range of the command:  1,2p
\* prints lines 1 to 2 and  2,3d  deletes lines 2 to 3
AddressWithoutGroup ==
    /\ (command_line = <<"1", ",", "2", "p">> /\ pc = "done")
            => Len(hist.calls) = 1 /\ hist.calls[1].range = Filerange(0, 11)
    /\ (command_line = <<"2", ",", "3", "d">> /\ pc = "done")
            => Len(hist.calls) = 1 /\ hist.calls[1].range = Filerange(6, 17)

(***************************************************************************)
(* C32: an error while the address is parsed                               *)
(***************************************************************************)
\* the messages parse_address_side logs
AddressErrors ==
    {"expected byte position", "expected mark", "invalid mark", "expected regular expression"}

\* parsing the address of the line has logged an error
AddressErrorLogged == \E i \in 1..Len(sam.log) : sam.log[i] \in AddressErrors

\* C32: once parsing the address of a line has logged an error, no handler
\* is called for the line and no text is changed by this call of sam_cmd.
AddressErrorStopsLine ==
    AddressErrorLogged => hist.calls = <<>> /\ text = hist.text0

\* a line whose address logged an error has been run to its end
AddressErrorStopsLineWitness ==
    /\ pc = "done"
    /\ AddressErrorLogged

\* ,/  logs "expected regular expression" and ends without a call
AddressErrorNoCommand ==
    /\ pc = "done"
    /\ sam.log = <<"expected regular expression">>
    /\ hist.calls = <<>>

(***************************************************************************)
(* C33: w and wq after a change of the same line                           *)
(***************************************************************************)
\* lines that write, after a change of the file or without one
WriteLines ==
    {<<"w">>, <<"w", "q">>, <<"w", "!">>, <<"w", " ", "t">>, <<"w", "q", " ", "t">>,
     <<"d", " ", "w">>, <<"d", " ", "w", "q">>, <<"d", " ", "w", "!">>, <<"d", " ", "w", "q", "!">>,
     <<"d", " ", "w", " ", "t">>, <<"d", " ", "w", "q", " ", "t">>,
     <<"a", "/", "X", "/", " ", "w">>, <<"a", "/", "X", "/", " ", "w", "q">>,
     <<"a", "/", "X", "/", " ", "d", " ", "w">>,
     <<"w", " ", "d">>, <<"%", " ", "w">>}

\* the files a window is on: a new buffer, a named file, the standard
\* input; with their text as loaded or modified
WriteFiles ==
    {[named |-> n, fd |-> fd, modified |-> m] :
        n \in BOOLEAN, fd \in {-1, 0}, m \in BOOLEAN} \ {f \in [named : {TRUE}, fd : {0}, modified : BOOLEAN] : TRUE}

\* sam_cmd is called with a line that writes, in window F1 with one or two
\* cursors or in visual mode
InitWrite ==
    /\ pc = "entry"
    /\ command_line \in WriteLines
    /\ tokens = <<>>
    /\ read_index = 0
    /\ text = [f \in Files |-> FileText(f)]
    /\ transcript = [f \in Files |-> NoTranscript]
    /\ \E v \in Views :
          /\ v.win = "F1"
          /\ Len(v.sels) <= 2
          /\ win = v.win
          /\ visual = v.visual
          /\ sels = [w \in Wins |-> IF w = "F1" THEN v.sels ELSE <<Cursor(0)>>]
    /\ windows = [w \in Wins |-> IF w = "F1" THEN "open" ELSE "unused"]
    /\ sam = NoSam
    /\ shell_register = <<>>
    /\ err = "SAM_ERR_OK"
    /\ \E f \in WriteFiles : editor = [InitVis EXCEPT !.files["F1"] = f]
    /\ hist = [NoHist EXCEPT !.editor = editor]

NextWrite ==
    \/ SamLex
    \/ SamValidate
    \/ ExecCommand
    \/ command_delete
    \/ command_append
    \/ command_write
    \/ command_wq
    \/ ExecReturn
    \/ SamApply

SpecWrite == InitWrite /\ [][NextWrite]_vars

\* the handlers that write
WriteHandlers == {"command_write", "command_wq"}

\* C33: a call of w or wq on a file whose transcript holds a change writes
\* nothing, returns false and sets the error of the transcript to
\* WriteConflict, and sam_cmd then applies no change of the file; on a file
\* whose transcript is empty the call leaves the error as it was.
WriteAfterChangeConflicts ==
    /\ [][(pc = "call" /\ command.definition.fn \in WriteHandlers /\ sam.win # NoWin)
            => IF transcript[sam.win].changes # <<>>
               THEN /\ hist'.written = hist.written
                    /\ hist'.calls[Len(hist'.calls)].result = "false"
                    /\ transcript'[sam.win].error = "SAM_ERR_WRITE_CONFLICT"
                    /\ editor' = editor
               ELSE transcript'[sam.win].error = transcript[sam.win].error]_vars
    /\ [][(pc = "apply" /\ pc' = "done")
            => \A f \in Wins : transcript[f].error = "SAM_ERR_WRITE_CONFLICT"
                                  => text'[f] = text[f] /\ err' # "SAM_ERR_OK"]_vars

\* d w  has ended: the write was refused and the text is as it was
WriteAfterChangeConflictsWitness ==
    /\ pc = "done"
    /\ command_line = <<"d", " ", "w">>
    /\ transcript["F1"].error = "SAM_ERR_WRITE_CONFLICT"
    /\ text["F1"] = FileText("F1")
    /\ hist.written = {}

\* w  alone has written the file
WriteUnblocked ==
    /\ pc = "done"
    /\ command_line = <<"w">>
    /\ hist.written = {1}
    /\ hist.calls[1].result = "true"

(***************************************************************************)
(* C34: the assertion of consume in sam_lex                                *)
(***************************************************************************)
\* C34: for every non-empty line every call of consume by sam_lex has
\* raw.len >= count, and no token reaches past the end of the line.
ConsumeWithinLine ==
    /\ pc # "trapped"
    /\ \A i \in 1..Len(tokens) : tokens[i].start + tokens[i].length <= Len(command_line)

\* a line that ends in a brace has been lexed up to the second consume
ConsumeWithinLineWitness ==
    /\ pc = "trapped"
    /\ command_line[Len(command_line)] \in {"{", "}"}

\* lines that do not end in a brace are lexed without a trap
ConsumeWithinLineOtherwise ==
    pc = "trapped" => command_line[Len(command_line)] \in {"{", "}"}

(***************************************************************************)
(* C35: the assertions of execute_token_stream                             *)
(***************************************************************************)
\* C35: when validate_token_stream has accepted the tokens of a line, no
\* assertion of execute_token_stream fails: not ASSERT(sts->count) on entry,
\* not ASSERT(command) at a closing brace, not ASSERT(nesting_level == 0)
\* after the loop.
ExecAssertionsHold ==
    [][(SamValidate \/ ExecGroupEnd \/ ExecReturn) => pc' # "trapped"]_vars

\* for  { }  the loop of execute_token_stream has ended with the group
\* closed and nesting_level at -1
ExecAssertionsHoldWitness ==
    /\ pc = "trapped"
    /\ read_index = Len(tokens)
    /\ Len(sam.commands) = 1
    /\ sam.nesting_level = -1
    /\ ~sam.should_exit

\* a line of white space only is accepted and fails ASSERT(sts->count)
ExecEmptyStream ==
    /\ pc = "trapped"
    /\ tokens = <<>>
    /\ command_line = <<" ">>

\* a closing brace before the opening one is accepted and fails
\* ASSERT(command)
ExecNoParent ==
    /\ pc = "trapped"
    /\ command_line = <<"}", " ", "{", " ", "d">>
    /\ read_index = 1

\* a line without braces and with a token ends the loop with nesting_level 0
ExecAssertionsWithoutGroup ==
    [][((SamValidate \/ ExecGroupEnd \/ ExecReturn) /\ pc' = "trapped")
          => \/ tokens = <<>>
             \/ \E i \in 1..Len(tokens) : tokens[i].type \in {"ST_GROUP_START", "ST_GROUP_END"}]_vars

(***************************************************************************)
(* C36: the assertion of sam_token_join                                    *)
(***************************************************************************)
\* lines with a number, signed or not, where sam_token_try_pop_number is
\* called: the value of a Number option, the exit code of q, the count of a
\* text
JoinLines ==
    {<<"s", "e", "t", " ", "t", "w", " ", "+", " ", "4">>,
     <<"s", "e", "t", " ", "t", "w", " ", "+", "4">>,
     <<"s", "e", "t", " ", "t", "w", " ", "-", " ", "4">>,
     <<"s", "e", "t", " ", "t", "w", " ", "4">>,
     <<"s", "e", "t", " ", "c", "c", " ", "-", "4">>,
     <<"q", " ", "+", " ", "1">>,
     <<"q", " ", "+", "1">>,
     <<"q", " ", "-", " ", "1">>,
     <<"q", " ", "1">>,
     <<"q">>,
     <<"q", "!">>,
     <<"a", "+", " ", "5", "/", "X", "/">>,
     <<"a", "+", "5", "/", "X", "/">>,
     <<"a", "5", "/", "X", "/">>,
     <<"a", " ", "5", "/", "X", "/">>,
     <<"a", "/", "X", "/">>,
     <<"a", "-", " ", "2", "/", "X", "/">>,
     <<"i", "+", " ", "2", "/", "Y", "/">>,
     <<"i", "2", "/", "Y", "/">>,
     <<"c", " ", "-", " ", "2", "/", "Z", "/">>,
     <<"c", "-", "2", "/", "Z", "/">>,
     <<"c", "/", "Z", "/">>}
\* sam_cmd is called with one of these lines in window F1, the only one
InitJoin ==
    /\ pc = "entry"
    /\ command_line \in JoinLines
    /\ tokens = <<>>
    /\ read_index = 0
    /\ text = [f \in Files |-> FileText(f)]
    /\ transcript = [f \in Files |-> NoTranscript]
    /\ \E v \in Views :
          /\ v.win = "F1"
          /\ win = v.win
          /\ visual = v.visual
          /\ sels = [w \in Wins |-> IF w = "F1" THEN v.sels ELSE <<Cursor(0)>>]
    /\ windows = [w \in Wins |-> IF w = "F1" THEN "open" ELSE "unused"]
    /\ sam = NoSam
    /\ shell_register = <<>>
    /\ err = "SAM_ERR_OK"
    /\ editor = InitVis
    /\ hist = [NoHist EXCEPT !.editor = editor]

NextJoin ==
    \/ SamLex
    \/ SamValidate
    \/ ExecCommand
    \/ command_set
    \/ command_quit
    \/ command_append
    \/ command_insert
    \/ command_change
    \/ ExecReturn
    \/ SamApply

SpecJoin == InitJoin /\ [][NextJoin]_vars

\* C36: every call of sam_token_join has a.start + a.length == b.start:
\* neither command_parse (the count of a text) nor command_quit (the exit
\* code) nor command_set (the value of a Number option) fails the
\* assertion, also when white space stands between a sign and the number.
JoinAssertionHolds ==
    [][(ExecCommand \/ command_quit \/ command_set) => pc' # "trapped"]_vars

\* set tw + 4  has trapped in command_set
JoinAssertionHoldsWitness ==
    /\ pc = "trapped"
    /\ command_line = <<"s", "e", "t", " ", "t", "w", " ", "+", " ", "4">>
    /\ hist.calls[Len(hist.calls)].fn = "command_set"
    /\ hist.calls[Len(hist.calls)].result = "none"

\* q - 1  has trapped in command_quit
JoinTrapQuit ==
    /\ pc = "trapped"
    /\ hist.calls # <<>>
    /\ hist.calls[Len(hist.calls)].fn = "command_quit"

\* a+ 5/X/  has trapped in command_parse, before a handler was called
JoinTrapCount ==
    /\ pc = "trapped"
    /\ hist.calls = <<>>

\* the assertion fails only where white space follows a sign
JoinTrapsAfterSignOnly ==
    pc = "trapped" =>
        \E i \in 1..(Len(command_line) - 1) :
            command_line[i] \in {"+", "-"} /\ command_line[i + 1] = " "

(***************************************************************************)
(* The loops of extract, one iteration at a time                           *)
(***************************************************************************)
MaxExtractLen == 3

ExtractAlphabet == {"a", "\n"}

ExtractTexts == UNION {[1..n -> ExtractAlphabet] : n \in 0..MaxExtractLen}

\* the patterns of x and y: NULL (no pattern), a pattern that matches the
\* empty string everywhere, ^, $, the letter a, and a pattern of which
\* nothing is known
ExtractRegexes == {"NULL", "empty", "bol", "eol", "a", "any"}

NotFound == [found |-> FALSE, start |-> EPOS, end |-> EPOS]

Found(a, b) == [found |-> TRUE, start |-> a, end |-> b]

\* the places where regex matches in the bytes pos .. pos + len of txt
regex_matches(txt, pos, len, regex, notbol) ==
    LET lim == pos + len
    IN  CASE regex = "empty" -> {Found(p, p) : p \in pos..lim}
          [] regex = "bol" ->
                {Found(p, p) : p \in {q \in pos..lim : \/ q = pos /\ ~notbol
                                                       \/ q > pos /\ txt[q] = "\n"}}
          [] regex = "eol" ->
                {Found(p, p) : p \in {q \in pos..lim : q = lim \/ txt[q + 1] = "\n"}}
          [] regex = "a" ->
                {Found(p, p + 1) : p \in {q \in pos..(lim - 1) : txt[q + 1] = "a"}}
          [] OTHER -> {}

\* text_search_range_forward: the leftmost match in the bytes pos .. pos + len
\* or no match; of the pattern "any" every match inside these bytes and no
\* match are possible
text_search_range_forward(txt, pos, len, regex, notbol) ==
    IF regex = "any"
    THEN {NotFound} \cup UNION {{Found(a, b) : b \in a..(pos + len)} : a \in pos..(pos + len)}
    ELSE LET ms == regex_matches(txt, pos, len, regex, notbol)
         IN  IF ms = {} THEN {NotFound}
             ELSE {m \in ms : \A o \in ms : m.start <= o.start}

\* text_byte_get(txt, pos, &c) && c == '\n'
byte_is_newline(txt, pos) == pos >= 0 /\ pos < Len(txt) /\ txt[pos + 1] = "\n"

\* int flags = start > range->start && text_byte_get(txt, start - 1, &c) &&
\* c != '\n' ? REG_NOTBOL : 0
extract_notbol(txt, x) ==
    x.start > x.range.start /\ x.start - 1 < Len(txt) /\ ~byte_is_newline(txt, x.start - 1)

extract_skip_stuck(start) == start

\* start++ after an empty match at last_start
extract_skip(start) == start + 1

\* the range handed to the sub-command of one iteration of the regex loop
extract_range(x, match) ==
    IF match.found
    THEN IF x.is_x THEN text_range_new(match.start, match.end)
         ELSE text_range_new(x.last_start, match.start)
    ELSE IF ~x.is_x THEN text_range_new(x.start, x.end) ELSE text_range_empty

\* if (simulate) count++; else ret &= sam_execute(...): result is what
\* sam_execute returned
extract_execute(x, r, result) ==
    IF x.simulate THEN [x EXCEPT !.count = @ + 1, !.ranges = Append(@, r)]
    ELSE [x EXCEPT !.ret = @ /\ result, !.ranges = Append(@, r)]

\* one iteration of while (start <= end) with the match the search found;
\* leave is TRUE when the iteration ends in break
extract_regex_iteration(txt, x, match, result) ==
    LET r == extract_range(x, match)
        empty == match.found /\ match.start = match.end
    IN  IF empty /\ x.last_start = match.start
        THEN [x |-> [x EXCEPT !.start = extract_skip(x.start)], leave |-> FALSE]
        ELSE IF /\ empty /\ x.end = match.start /\ x.start > x.range.start
                /\ byte_is_newline(txt, x.end - 1)
        THEN [x |-> x, leave |-> TRUE]
        ELSE LET start == IF ~match.found THEN x.end + 1
                          ELSE IF empty THEN match.end + 1 ELSE match.end
                 moved == [x EXCEPT !.start = start]
             IN  IF text_range_valid(r)
                 THEN [x |-> extract_execute([moved EXCEPT !.last_start =
                                                  IF match.found THEN match.end ELSE start],
                                             r, result),
                       leave |-> FALSE]
                 ELSE [x |-> moved, leave |-> FALSE]

\* one iteration of while (start < end) of the loop over the lines
extract_line_iteration(txt, x, result) ==
    LET line_next == text_line_next(txt, x.start)
        next == IF line_next > x.end THEN x.end ELSE line_next
        r == text_range_new(x.start, next)
    IN  IF x.start = next \/ ~text_range_valid(r) THEN [x |-> x, leave |-> TRUE]
        ELSE [x |-> [extract_execute(x, r, result) EXCEPT !.start = next], leave |-> FALSE]

ExtractRanges(txt) == {Filerange(a, b) : a \in 0..Len(txt), b \in 0..Len(txt)}

InitExtract ==
    /\ pc = "extract"
    /\ command_line = <<>>
    /\ tokens = <<>>
    /\ read_index = 0
    /\ \E txt \in ExtractTexts : text = [f \in Files |-> IF f = "F1" THEN txt ELSE <<>>]
    /\ transcript = [f \in Files |-> NoTranscript]
    /\ sels = [w \in Wins |-> <<Cursor(0)>>]
    /\ visual = FALSE
    /\ win = "F1"
    /\ windows = [w \in Wins |-> IF w = "F1" THEN "open" ELSE "unused"]
    /\ sam = NoSam
    /\ shell_register = <<>>
    /\ err = "SAM_ERR_OK"
    /\ editor = InitVis
    /\ \E regex \in ExtractRegexes, is_x \in BOOLEAN, simulate \in BOOLEAN,
          range \in ExtractRanges(text["F1"]) :
          /\ text_range_valid(range)
          /\ hist = [NoHist EXCEPT !.extract = [NoExtract EXCEPT !.regex = regex, !.is_x = is_x,
                                                !.simulate = simulate, !.range = range]]

ExtractStep(p, x) ==
    /\ pc' = p
    /\ hist' = [hist EXCEPT !.extract = x]
    /\ UNCHANGED <<lexVars, fileVars, viewVars, engineVars>>

\* size_t start = range->start, end = range->end; size_t last_start = is_x ?
\* EPOS : start
ExtractEnter ==
    /\ pc = "extract"
    /\ LET x == hist.extract
       IN  ExtractStep(IF x.regex # "NULL" THEN "regex_loop" ELSE "line_loop",
                       [x EXCEPT !.start = x.range.start, !.end = x.range.end,
                                 !.last_start = IF x.regex # "NULL" /\ ~x.is_x
                                                THEN x.range.start ELSE EPOS])

ExtractRegexIteration ==
    /\ pc = "regex_loop"
    /\ hist.extract.start <= hist.extract.end
    /\ LET x == hist.extract
           txt == text["F1"]
       IN  \E match \in text_search_range_forward(txt, x.start, x.end - x.start, x.regex,
                                                  extract_notbol(txt, x)),
              result \in BOOLEAN :
               LET i == extract_regex_iteration(txt, x, match, result)
               IN  /\ x.simulate => result
                   /\ ExtractStep(IF i.leave THEN "break" ELSE "regex_loop",
                                  [i.x EXCEPT !.iterations = @ + 1])

ExtractLineIteration ==
    /\ pc = "line_loop"
    /\ hist.extract.start < hist.extract.end
    /\ LET x == hist.extract
       IN  \E result \in BOOLEAN :
               LET i == extract_line_iteration(text["F1"], x, result)
               IN  /\ x.simulate => result
                   /\ ExtractStep(IF i.leave THEN "break" ELSE "line_loop",
                                  [i.x EXCEPT !.iterations = @ + 1])

\* the loop condition is false or the loop was left by break
ExtractReturn ==
    /\ \/ pc = "break"
       \/ pc = "regex_loop" /\ hist.extract.start > hist.extract.end
       \/ pc = "line_loop" /\ hist.extract.start >= hist.extract.end
    /\ ExtractStep("returned", hist.extract)

NextExtract == ExtractEnter \/ ExtractRegexIteration \/ ExtractLineIteration \/ ExtractReturn

SpecExtract == InitExtract /\ [][NextExtract]_vars /\ WF_vars(NextExtract)

\* C37: for every valid range and every pattern both loops of extract
\* terminate: an iteration that does not leave the loop strictly increases
\* the scan position, which goes no further than one past the end of the
\* range, and extract returns.
ExtractTerminates ==
    /\ [][(ExtractRegexIteration \/ ExtractLineIteration) /\ pc' # "break" =>
              /\ hist'.extract.start > hist.extract.start
              /\ hist'.extract.start <= hist.extract.end + 1]_vars
    /\ <>(pc = "returned")

\* x with a pattern that matches the empty string at every position has
\* gone over a range of MaxExtractLen bytes
ExtractTerminatesWitness ==
    /\ pc = "returned"
    /\ hist.extract.regex = "empty" /\ hist.extract.is_x
    /\ hist.extract.range = Filerange(0, MaxExtractLen)
    /\ hist.extract.iterations = MaxExtractLen + 1

\* the same for y, where the first empty match is at last_start
ExtractSkipped ==
    /\ pc = "returned"
    /\ hist.extract.regex = "empty" /\ ~hist.extract.is_x
    /\ hist.extract.iterations > 1

\* the loop over the lines has gone over a range of two lines
ExtractLines ==
    /\ pc = "returned"
    /\ hist.extract.regex = "NULL"
    /\ Len(hist.extract.ranges) = 2

\* the regex loop was left at the empty match after the last newline
ExtractBreak == pc = "break" /\ hist.extract.regex = "bol"

\* the number of iterations is bounded by the size of the range
ExtractIterationsBounded ==
    hist.extract.iterations <= hist.extract.range.end - hist.extract.range.start + 2

(***************************************************************************)
(* vis_option_register and vis_option_unregister                           *)
(***************************************************************************)
MaxNames == 3

MaxOptionDefs == 2

\* LENGTH(opt->names) - 1: the names an OptionDef holds before its NULL
OptionDefNames == 2

\* the names the calls are made with: two new names and the alias of a
\* builtin option
OptionNames == {<<"x">>, <<"y">>, <<"t", "w">>}

\* the calls of calloc, strdup and map_put that find memory: all of them,
\* all but calloc, all but strdup, all but one map_put
OptionMemory ==
    {[opt |-> o, names |-> n, puts |-> 1..MaxNames] : o \in BOOLEAN, n \in BOOLEAN}
        \cup {[opt |-> TRUE, names |-> TRUE, puts |-> (1..MaxNames) \ {i}] : i \in 1..MaxNames}

\* names[]: the names before the terminating NULL
OptionNameLists == UNION {[1..n -> OptionNames] : n \in 0..MaxNames}

\* options[i].names: the name, then the alias if there is one
builtin_names(index) ==
    LET o == CHOOSE d \in options : d.index = index
        long == CHOOSE n \in o.names : \A k \in o.names : Len(k) <= Len(n)
    IN  IF o.names = {long} THEN <<long>>
        ELSE <<long, CHOOSE n \in o.names : n # long>>

\* for (name = names; *name; name++) map_put(vis->options, *name, opt): the
\* result of map_put is not looked at; puts holds the indices of the calls
\* that find memory
RECURSIVE option_put_all(_, _, _, _, _)
option_put_all(map, names, i, opt, puts) ==
    IF i > Len(names) THEN map
    ELSE option_put_all(map_put(map, names[i], opt, i \in puts).map, names, i + 1, opt, puts)

\* for (i = 0; i < LENGTH(opt->names)-1 && names[i]; i++) opt->names[i] =
\* strdup(names[i])
option_names_copied(names) ==
    SubSeq(names, 1, IF Len(names) < OptionDefNames THEN Len(names) ELSE OptionDefNames)

\* vis_option_register(vis, names, flags, func, context, help); memory says
\* whether calloc and the calls of strdup find memory and which calls of
\* map_put do
option_register(v, names, memory) ==
    IF names = <<>> THEN [result |-> FALSE, vis |-> v]
    ELSE IF \E i \in 1..Len(names) : map_get(v.options, names[i])
    THEN [result |-> FALSE, vis |-> v]
    ELSE IF ~memory.opt \/ ~memory.names THEN [result |-> FALSE, vis |-> v]
    ELSE LET id  == Len(v.option_defs) + 1
             def == [names |-> option_names_copied(names), registered |-> names,
                     freed |-> FALSE]
         IN  [result |-> TRUE,
              vis |-> [v EXCEPT !.option_defs = Append(@, def),
                                !.options = option_put_all(@, names, 1, heap_option(id),
                                                           memory.puts)]]

\* for (alias = opt->names; *alias; alias++) if (!map_delete(vis->options,
\* *alias)) return false
RECURSIVE option_delete_all(_, _, _)
option_delete_all(map, aliases, i) ==
    IF i > Len(aliases) THEN [ok |-> TRUE, map |-> map]
    ELSE LET d == map_delete(map, aliases[i])
         IN  IF ~d.ok THEN [ok |-> FALSE, map |-> map]
             ELSE option_delete_all(d.map, aliases, i + 1)

\* option_free: an entry of options[] is left alone, any other OptionDef is
\* freed
option_free(v, opt) ==
    IF opt.heap THEN [v EXCEPT !.option_defs[opt.id].freed = TRUE] ELSE v

\* vis_option_unregister(vis, name) when the OptionDef that map_get returns
\* is not freed memory
option_unregister(v, name) ==
    IF ~map_get(v.options, name) THEN [result |-> FALSE, vis |-> v]
    ELSE LET opt == v.options[name]
             aliases == IF opt.heap THEN v.option_defs[opt.id].names
                        ELSE builtin_names(opt.index)
             d == option_delete_all(v.options, aliases, 1)
         IN  IF ~d.ok THEN [result |-> FALSE, vis |-> [v EXCEPT !.options = d.map]]
             ELSE [result |-> TRUE, vis |-> option_free([v EXCEPT !.options = d.map], opt)]

\* map_get(vis->options, name) is a pointer to freed memory
option_dangling(v, name) ==
    /\ map_get(v.options, name)
    /\ v.options[name].heap
    /\ v.option_defs[v.options[name].id].freed

InitOption ==
    /\ pc = "entry"
    /\ command_line = <<>>
    /\ tokens = <<>>
    /\ read_index = 0
    /\ text = [f \in Files |-> FileText(f)]
    /\ transcript = [f \in Files |-> NoTranscript]
    /\ sels = [w \in Wins |-> <<Cursor(0)>>]
    /\ visual = FALSE
    /\ win = "F1"
    /\ windows = [w \in Wins |-> IF w = "F1" THEN "open" ELSE "unused"]
    /\ sam = NoSam
    /\ shell_register = <<>>
    /\ err = "SAM_ERR_OK"
    /\ editor = InitVis
    /\ hist = NoHist

OptionCalled(op, name, opt, r) ==
    /\ editor' = r.vis
    /\ hist' = [hist EXCEPT !.option_call = [op |-> op, name |-> name, opt |-> opt,
                                             result |-> r.result]]
    /\ UNCHANGED <<lexVars, fileVars, viewVars, sam, shell_register, err>>

vis_option_register ==
    /\ pc = "entry"
    /\ Len(editor.option_defs) < MaxOptionDefs
    /\ \E names \in OptionNameLists, memory \in OptionMemory :
           /\ OptionCalled("register", <<>>, 0, option_register(editor, names, memory))
           /\ UNCHANGED pc

\* a name that resolves to freed memory: the reads of opt->names are reads
\* of freed memory, the process is killed or the call goes on with what the
\* memory held
vis_option_unregister ==
    /\ pc = "entry"
    /\ \E name \in OptionNames :
           LET opt == IF map_get(editor.options, name) /\ editor.options[name].heap
                      THEN editor.options[name].id ELSE 0
           IN  /\ OptionCalled("unregister", name, opt, option_unregister(editor, name))
               /\ \/ UNCHANGED pc
                  \/ option_dangling(editor, name) /\ pc' = "trapped"

NextOption == vis_option_register \/ vis_option_unregister

SpecOption == InitOption /\ [][NextOption]_vars

\* vis_option_unregister has just returned true for a name of an OptionDef
\* that vis_option_register made
OptionUnregistered ==
    /\ pc = "entry"
    /\ hist.option_call.op = "unregister" /\ hist.option_call.result
    /\ hist.option_call.opt # 0

\* the names the unregistered OptionDef was registered with
OptionRegistered ==
    LET names == editor.option_defs[hist.option_call.opt].registered
    IN  {names[i] : i \in 1..Len(names)}

\* C38: after vis_option_register succeeds for a list of names of any length
\* and a later vis_option_unregister for one of those names returns true,
\* none of the registered names resolves in the option map: no key of the
\* map refers to the freed option definition.
OptionUnregisterRemovesAll ==
    OptionUnregistered =>
        /\ \A n \in OptionRegistered : ~map_get(editor.options, n)
        /\ \A n \in DOMAIN editor.options :
               editor.options[n] # heap_option(hist.option_call.opt)

\* a list of one or two names was registered and one of the names was
\* unregistered
OptionUnregisterRemovesAllWitness ==
    /\ OptionUnregistered
    /\ Cardinality(OptionRegistered) = 2

\* the same for the lists of at most as many names as an OptionDef holds
OptionUnregisterRemovesCopied ==
    OptionUnregistered /\ Len(editor.option_defs[hist.option_call.opt].registered) <= OptionDefNames =>
        /\ \A n \in OptionRegistered : ~map_get(editor.options, n)
        /\ \A n \in DOMAIN editor.options :
               editor.options[n] # heap_option(hist.option_call.opt)

\* a name of a longer list still resolves after the unregistration
OptionDangling ==
    /\ OptionUnregistered
    /\ \E n \in OptionRegistered : option_dangling(editor, n)

(***************************************************************************)
(* C39: the latest shortcut of change_new                                  *)
(***************************************************************************)
\* change_new without the shortcut: prev = &t->changes; next = t->changes
change_new_from_head(t, type, range, w, sel) ==
    IF ~text_range_valid(range) THEN [t |-> t, result |-> 0]
    ELSE LET next == change_scan(t.changes, 1, range)
         IN  IF change_conflict(t.changes, next, range)
             THEN [t |-> [t EXCEPT !.error = "SAM_ERR_CONFLICT"], result |-> 0]
             ELSE [t |-> [t EXCEPT !.changes = InsertAt(@, next, Change(type, w, sel, range)),
                                   !.latest = next],
                   result |-> next]

\* C39: change_new with the latest shortcut does what change_new does when
\* it always scans from the head of the list: on every transcript that a
\* sequence of enqueues has built, and for every range enqueued next, both
\* leave the same change list, the same latest node and the same error, and
\* when the shortcut is taken latest.range.end <= the start of the new range.
LatestShortcutEquivalent ==
    LET t == transcript["F1"]
    IN  \A q \in TrRequests :
            /\ change_new(t, TRANSCRIPT_DELETE, q.range, "F1", 1)
                   = change_new_from_head(t, TRANSCRIPT_DELETE, q.range, "F1", 1)
            /\ text_range_valid(q.range) /\ change_first(t, q.range) # 1 =>
                   t.changes[t.latest].range.end <= q.range.start

\* the last enqueue took the shortcut and linked its node before the last
\* node of a list of MaxChanges nodes
LatestShortcutEquivalentWitness ==
    LET t == transcript["F1"]
    IN  /\ hist.shortcut
        /\ Len(t.changes) = MaxChanges
        /\ t.latest = MaxChanges - 1
        /\ t.error = "SAM_ERR_OK"

\* the last enqueue took the shortcut and found a conflict
LatestShortcutConflict ==
    /\ hist.shortcut
    /\ transcript["F1"].error = "SAM_ERR_CONFLICT"

\* the last enqueue scanned from the head although latest was set
LatestShortcutNotTaken ==
    /\ ~hist.shortcut
    /\ Len(transcript["F1"].changes) = MaxChanges
    /\ transcript["F1"].latest = 1

====
